---- MODULE Spec2Model ----
(***************************************************************************)
(* wacraft-reminders: the API client's token lifecycle                     *)
(* (core/wacraft/client.rs), the reminder dispatch                         *)
(* (cmd/reminders.rs) and the rule selection inside it.                    *)
(*                                                                         *)
(* Conventions.  An Option<T> is a set: {} is None and {x} is Some(x).     *)
(* Wall-clock time is in seconds.  Token strings are natural numbers: the  *)
(* token endpoint hands out a fresh one with every successful grant.       *)
(***************************************************************************)
EXTENDS Integers, Sequences, FiniteSets, TLC

VARIABLES
    config,     \* client -> WacraftConfig (access_token, refresh_token, token_expires_at)
    readers,    \* client -> tasks holding the RwLock's shared guard
    writer,     \* client -> tasks holding the RwLock's exclusive guard (at most one)
    pc,         \* task -> position inside get_valid_token
    on,         \* task -> the client the call runs on
    ret,        \* task -> Option<String>: the token the call returned
    now,        \* SystemTime::now(), seconds
    issued,     \* number of tokens the endpoint has handed out
    obs,        \* task -> what its latest validity check read (history)
    reqs,       \* task -> the grant requests it sent, with their outcome (history)
    held,       \* task -> the lock modes it has held (history)
    lastGrant,  \* Option: the latest successful grant's response and clock (history)
    calls,      \* the requests sent to the network, oldest first (history)
    reminders_json,        \* the reminders.json file
    contact_id, settings, conversation, mock,   \* send_reminder_to_contact's arguments
    dpc,                   \* position inside send_reminder_to_contact
    reminders,             \* the rules it loaded
    latest_conversation,   \* Option<Conversation>
    contact,               \* Option<MessagingProductContact>: the resolved contact
    rule_to_apply,         \* Option<ReminderRule>
    result,                \* Option: what send_reminder_to_contact returned
    api,                   \* Option: the API client operation in progress
    settings_json,         \* Option<WacraftConfig>: settings.json, None if it cannot be loaded
    batch_size,            \* the daemon's --batch-size
    dstate,                \* position inside run_daemon_process / process_reminders_cycle
    due,                   \* timer deadlines that have passed and were not awaited yet
    offset,                \* process_reminders_cycle's page offset
    page,                  \* the conversations of the fetched page still to be visited
    running,               \* number of cycle bodies begun and not ended (history)
    fetches,               \* the page fetches of the current cycle (history)
    had_error,             \* a dispatch of the current cycle returned an error (history)
    cycle_result,          \* Option: what the latest process_reminders_cycle returned
    loaded,                \* the rule lists the dispatches of the current cycle used (history)
    remote,                \* the server's list of conversations, where it is followed
    received               \* requests the webhook's receiver has accepted, where it counts

tokenVars == <<config, readers, writer, pc, on, ret, now, issued, obs, reqs, held, lastGrant, calls>>
dispatchVars ==
    <<reminders_json, contact_id, settings, conversation, mock, dpc, reminders,
      latest_conversation, contact, rule_to_apply, result, api>>
daemonVars ==
    <<settings_json, batch_size, dstate, due, offset, page, running, fetches, had_error,
      cycle_result, loaded, remote, received>>
vars == <<tokenVars, dispatchVars, daemonVars>>

None == {}
Some(x) == {x}
IsSome(o) == o # {}
Unwrap(o) == CHOOSE x \in o : TRUE

-----------------------------------------------------------------------------
(* Bounds and input domains *)

NCallers == 2
MaxClock == 2

Callers == 1..NCallers
Clients == {"cycle", "send"}
ClockSteps == {30}
ExpiresIn == {30, 120}
SeedExpiry == {60, 61}

\* the safety margin of the validity check
Margin == 60

\* seconds in chrono's Duration::hours(1)
Hour == 3600

\* inactive_for_hours is a u64 and is cast to i64: both are modelled HourBits wide.
\* chrono's Duration holds at most i64::MAX milliseconds, so Duration::hours
\* panics beyond a number of hours far below i64::MAX: MaxDurationHours.
HourBits == 8
MaxDurationHours == 100
MaxRules == 2
MaxSelectRules == 3

\* the daemon: the page offset is a u32, modelled OffsetBits wide; a cycle gets
\* at most MaxPages pages that are not empty; the timer runs at most MaxDue
\* deadlines ahead of the loop
OffsetBits == 3
MaxPages == 2
MaxDue == 1

NIL_UUID == "00000000-0000-0000-0000-000000000000"

-----------------------------------------------------------------------------
(* core/wacraft/client.rs *)

\* if let (Some(token), Some(expires_at)) = ... { if expires_at > now + 60 {..} }
TokenValid_AtMargin(cfg, t) ==
    /\ IsSome(cfg.access_token)
    /\ IsSome(cfg.token_expires_at)
    /\ Unwrap(cfg.token_expires_at) >= t + Margin
TokenValid(cfg, t) ==
    /\ IsSome(cfg.access_token)
    /\ IsSome(cfg.token_expires_at)
    /\ Unwrap(cfg.token_expires_at) > t + Margin

\* the re-check under the exclusive guard (lines 57-66)
RecheckValid_Skipped(cfg, t) == FALSE
RecheckValid(cfg, t) == TokenValid(cfg, t)

\* _update_config_tokens
UpdateTokens_KeepRefresh(cfg, response, t) ==
    [cfg EXCEPT !.access_token = Some(response.access_token),
                !.token_expires_at = Some(t + response.expires_in)]
UpdateTokens(cfg, response, t) ==
    [cfg EXCEPT !.access_token = Some(response.access_token),
                !.refresh_token = Some(response.refresh_token),
                !.token_expires_at = Some(t + response.expires_in)]

\* TokenResponse of the endpoint's next successful grant
TokenResponses ==
    {[access_token |-> issued + 1, refresh_token |-> issued + 1, expires_in |-> e] :
        e \in ExpiresIn}

\* the grant tried first: refresh_token if one is stored, else password
FirstGrant_PasswordOnly(cfg) == "password"
FirstGrant(cfg) == IF IsSome(cfg.refresh_token) THEN "refresh_token" ELSE "password"

\* history: what a check read, the requests a call sent and how they were answered
Observe(c, guard) ==
    [obs EXCEPT ![c] = Append(@, [cfg |-> config[on[c]], now |-> now, under |-> guard])]
Request(kind) == [grant_type |-> kind, ok |-> "pending", expires_at |-> None]
Sent(c, kind) == [reqs EXCEPT ![c] = Append(@, Request(kind))]
TokenCall(kind) == [op |-> "token", grant_type |-> kind]
Answered(c, r, exp) ==
    [reqs EXCEPT ![c][Len(reqs[c])].ok = r, ![c][Len(reqs[c])].expires_at = exp]

\* self.config.read().await: granted while no task holds the exclusive guard.
\* (tokio's RwLock also queues a reader behind a waiting writer; every order it
\* grants the guards in is one of the orders allowed here.)
CanRead_DuringWrite(k) == TRUE
CanRead(k) == writer[k] = {}
ReadLock(c) ==
    /\ pc[c] = "start"
    /\ CanRead(on[c])
    /\ readers' = [readers EXCEPT ![on[c]] = @ \cup {c}]
    /\ held' = [held EXCEPT ![c] = @ \cup {"read"}]
    /\ pc' = [pc EXCEPT ![c] = "read"]
    /\ UNCHANGED <<config, writer, on, ret, now, issued, obs, reqs, lastGrant, calls>>
    /\ UNCHANGED <<dispatchVars, daemonVars>>

\* the check under the shared guard; the guard is dropped on both ways out
ReadCheck_KeepGuard(c) ==
    /\ pc[c] = "read"
    /\ obs' = Observe(c, "read")
    /\ IF TokenValid(config[on[c]], now)
       THEN /\ ret' = [ret EXCEPT ![c] = config[on[c]].access_token]
            /\ pc' = [pc EXCEPT ![c] = "ok"]
            /\ readers' = [readers EXCEPT ![on[c]] = @ \ {c}]
       ELSE /\ pc' = [pc EXCEPT ![c] = "wait_write"]
            /\ ret' = ret
            /\ readers' = readers
    /\ UNCHANGED <<config, writer, on, now, issued, reqs, held, lastGrant, calls>>
    /\ UNCHANGED <<dispatchVars, daemonVars>>
ReadCheck(c) ==
    /\ pc[c] = "read"
    /\ obs' = Observe(c, "read")
    /\ readers' = [readers EXCEPT ![on[c]] = @ \ {c}]
    /\ IF TokenValid(config[on[c]], now)
       THEN /\ ret' = [ret EXCEPT ![c] = config[on[c]].access_token]
            /\ pc' = [pc EXCEPT ![c] = "ok"]
       ELSE /\ pc' = [pc EXCEPT ![c] = "wait_write"]
            /\ ret' = ret
    /\ UNCHANGED <<config, writer, on, now, issued, reqs, held, lastGrant, calls>>
    /\ UNCHANGED <<dispatchVars, daemonVars>>

\* self.config.write().await
CanWrite_OverReaders(k) == writer[k] = {}
CanWrite(k) == writer[k] = {} /\ readers[k] = {}
WriteLock(c) ==
    /\ pc[c] = "wait_write"
    /\ CanWrite(on[c])
    /\ writer' = [writer EXCEPT ![on[c]] = @ \cup {c}]
    /\ held' = [held EXCEPT ![c] = @ \cup {"write"}]
    /\ pc' = [pc EXCEPT ![c] = "write"]
    /\ UNCHANGED <<config, readers, on, ret, now, issued, obs, reqs, lastGrant, calls>>
    /\ UNCHANGED <<dispatchVars, daemonVars>>

\* the re-check under the exclusive guard, then the first grant request
WriteCheck(c) ==
    /\ pc[c] = "write"
    /\ obs' = Observe(c, "write")
    /\ IF RecheckValid(config[on[c]], now)
       THEN /\ ret' = [ret EXCEPT ![c] = config[on[c]].access_token]
            /\ pc' = [pc EXCEPT ![c] = "ok"]
            /\ writer' = [writer EXCEPT ![on[c]] = @ \ {c}]
            /\ UNCHANGED <<reqs, calls>>
       ELSE /\ pc' = [pc EXCEPT ![c] = FirstGrant(config[on[c]])]
            /\ reqs' = Sent(c, FirstGrant(config[on[c]]))
            /\ calls' = Append(calls, TokenCall(FirstGrant(config[on[c]])))
            /\ UNCHANGED <<ret, writer>>
    /\ UNCHANGED <<config, readers, on, now, issued, held, lastGrant>>
    /\ UNCHANGED <<dispatchVars, daemonVars>>

\* a successful grant: _update_config_tokens, return the new token, drop the guard
GrantOk(c, response) ==
    /\ config' = [config EXCEPT ![on[c]] = UpdateTokens(@, response, now)]
    /\ ret' = [ret EXCEPT ![c] = Some(response.access_token)]
    /\ pc' = [pc EXCEPT ![c] = "ok"]
    /\ writer' = [writer EXCEPT ![on[c]] = @ \ {c}]
    /\ issued' = issued + 1
    /\ reqs' = Answered(c, "ok", Some(now + response.expires_in))
    /\ lastGrant' = Some([by |-> c, on |-> on[c], response |-> response, now |-> now])
    /\ calls' = calls

\* the refresh_token grant's answer; any failure falls back to the password grant
RefreshFallback(c) ==
    /\ pc' = [pc EXCEPT ![c] = "password"]
    /\ reqs' = [reqs EXCEPT ![c] = Append([@ EXCEPT ![Len(@)].ok = "fail"], Request("password"))]
    /\ calls' = Append(calls, TokenCall("password"))
    /\ UNCHANGED <<config, ret, writer, issued, lastGrant>>
RefreshReply(c) ==
    /\ pc[c] = "refresh_token"
    /\ \/ \E response \in TokenResponses : GrantOk(c, response)
       \/ RefreshFallback(c)
    /\ UNCHANGED <<readers, on, now, obs, held>>
    /\ UNCHANGED <<dispatchVars, daemonVars>>

\* the password grant's answer; a failure is returned with `?`
PasswordReply_KeepLock(c) ==
    /\ pc[c] = "password"
    /\ \/ \E response \in TokenResponses : GrantOk(c, response)
       \/ /\ pc' = [pc EXCEPT ![c] = "err"]
          /\ reqs' = Answered(c, "fail", None)
          /\ UNCHANGED <<config, ret, writer, issued, lastGrant, calls>>
    /\ UNCHANGED <<readers, on, now, obs, held>>
    /\ UNCHANGED <<dispatchVars, daemonVars>>
PasswordReply(c) ==
    /\ pc[c] = "password"
    /\ \/ \E response \in TokenResponses : GrantOk(c, response)
       \/ /\ pc' = [pc EXCEPT ![c] = "err"]
          /\ writer' = [writer EXCEPT ![on[c]] = @ \ {c}]
          /\ reqs' = Answered(c, "fail", None)
          /\ UNCHANGED <<config, ret, issued, lastGrant, calls>>
    /\ UNCHANGED <<readers, on, now, obs, held>>
    /\ UNCHANGED <<dispatchVars, daemonVars>>

\* the wall clock moves on
ClockTick ==
    /\ \E d \in ClockSteps :
          /\ now + d <= MaxClock * d
          /\ now' = now + d
    /\ UNCHANGED <<config, readers, writer, pc, on, ret, issued, obs, reqs, held, lastGrant, calls>>
    /\ UNCHANGED <<dispatchVars, daemonVars>>

\* one step of a get_valid_token call
TokenStep(c) ==
    \/ ReadLock(c)
    \/ ReadCheck(c)
    \/ WriteLock(c)
    \/ WriteCheck(c)
    \/ RefreshReply(c)
    \/ PasswordReply(c)

-----------------------------------------------------------------------------
(* cmd/reminders.rs: rule selection *)

\* rule.inactive_for_hours as i64
AsI64(h) == IF h >= 2 ^ (HourBits - 1) THEN h - 2 ^ HourBits ELSE h

\* Duration::hours(h): Some(seconds), or None where it panics (out of bounds)
DurationHours(h) ==
    IF h > MaxDurationHours \/ h < 0 - MaxDurationHours THEN None ELSE Some(h * Hour)

\* sort_by(|a, b| b.inactive_for_hours.cmp(&a.inactive_for_hours)): does b go before a
Before(b, a) == b.inactive_for_hours > a.inactive_for_hours

\* a stable sort: equal elements keep their order
RECURSIVE InsertRule(_, _)
InsertRule(sorted, r) ==
    IF sorted = <<>> THEN <<r>>
    ELSE IF Before(r, sorted[Len(sorted)])
         THEN Append(InsertRule(SubSeq(sorted, 1, Len(sorted) - 1), r), sorted[Len(sorted)])
         ELSE Append(sorted, r)
RECURSIVE SortRules(_)
SortRules(rs) ==
    IF rs = <<>> THEN <<>>
    ELSE InsertRule(SortRules(SubSeq(rs, 1, Len(rs) - 1)), rs[Len(rs)])

\* |rule| inactive_duration >= Duration::hours(rule.inactive_for_hours as i64)
RuleMatches(rule, inactive_duration) ==
    inactive_duration >= Unwrap(DurationHours(AsI64(rule.inactive_for_hours)))

\* into_iter().find(..): the first match, in order; the closure runs on every
\* rule up to the match and may panic
RECURSIVE FindRule(_, _)
FindRule(rs, inactive_duration) ==
    IF rs = <<>> THEN [kind |-> "none", rule |-> None]
    ELSE IF DurationHours(AsI64(rs[1].inactive_for_hours)) = None
         THEN [kind |-> "panic", rule |-> None]
         ELSE IF RuleMatches(rs[1], inactive_duration)
              THEN [kind |-> "some", rule |-> Some(rs[1])]
              ELSE FindRule(Tail(rs), inactive_duration)

\* lines 104-112
SelectRule(rs, updated_at, utc_now) == FindRule(SortRules(rs), utc_now - updated_at)

-----------------------------------------------------------------------------
(* no dispatch is running *)

\* `config init` writes no tokens
BlankConfig == [access_token |-> None, refresh_token |-> None, token_expires_at |-> None]

NoRules == [kind |-> "missing", rules |-> <<>>]
NoDispatch ==
    /\ reminders_json = NoRules
    /\ contact_id = ""
    /\ settings = BlankConfig
    /\ conversation = None
    /\ mock = FALSE
    /\ dpc = "idle"
    /\ reminders = <<>>
    /\ latest_conversation = None
    /\ contact = None
    /\ rule_to_apply = None
    /\ result = None
    /\ api = None

\* no daemon is running
NoDaemon ==
    /\ settings_json = None
    /\ batch_size = 0
    /\ dstate = "off"
    /\ due = 0
    /\ offset = 0
    /\ page = <<>>
    /\ running = 0
    /\ fetches = <<>>
    /\ had_error = FALSE
    /\ cycle_result = None
    /\ loaded = {}
    /\ remote = <<>>
    /\ received = 0

-----------------------------------------------------------------------------
(* core/wacraft/models.rs, config/models.rs: the data *)

\* the task that runs main
Main == CHOOSE c \in Callers : \A d \in Callers : c <= d

ContactOf(id, email) == [id |-> <<"contact", id>>, name |-> <<"name", id>>, email |-> email]
Details(id) == [wa_id |-> <<"wa_id", id>>]
Mpc(id, ctt, details) == [id |-> id, contact |-> ctt, product_details |-> details]
FullMpc(id) == Mpc(id, Some(ContactOf(id, Some(<<"email", id>>))), Some(Details(id)))
MpcVariants(id) ==
    {FullMpc(id),
     Mpc(id, None, Some(Details(id))),
     Mpc(id, Some(ContactOf(id, Some(<<"email", id>>))), None),
     Mpc(id, Some(ContactOf(id, None)), Some(Details(id))),
     Mpc(id, None, None)}
\* the placeholder snapshot the API embeds for "no contact"
SentinelMpc == Mpc(NIL_UUID, None, None)

ToContacts == {None, Some(SentinelMpc)} \cup {Some(m) : m \in MpcVariants("c1")}
FromContacts == {None, Some(SentinelMpc), Some(FullMpc("c2"))}
UpdatedAts == {0 - 80 * Hour, 0 - 30 * Hour, Hour}
Conversations ==
    [to_contact : ToContacts, from_contact : FromContacts, updated_at : UpdatedAts]

Rule(name, hours, action) == [name |-> name, inactive_for_hours |-> hours, action |-> action]
DispatchRules ==
    {Rule("A", 24, Some("email")), Rule("B", 72, None),
     Rule("M", 24, Some("wacraft_message")), Rule("H", 48, Some("http_request"))}
SeqsUpTo(S, n) == UNION {[1..k -> S] : k \in 0..n}

\* reminders.json: absent, unreadable (or not a rule list), or a rule list
RemindersFiles(lists) ==
    {[kind |-> "missing", rules |-> <<>>], [kind |-> "unreadable", rules |-> <<>>]}
        \cup {[kind |-> "file", rules |-> l] : l \in lists}

\* settings.json's wacraft section: no tokens, or a token that is still good
SettingsSeeds ==
    {BlankConfig,
     [access_token |-> Some(0), refresh_token |-> Some(0), token_expires_at |-> Some(2 * Hour)]}

-----------------------------------------------------------------------------
(* core/wacraft/client.rs: the authenticated operations *)

\* `self.get_valid_token().await?` on client k begins
StartCall(c, k) ==
    /\ pc' = [pc EXCEPT ![c] = "start"]
    /\ on' = [on EXCEPT ![c] = k]
    /\ ret' = [ret EXCEPT ![c] = None]
    /\ obs' = [obs EXCEPT ![c] = <<>>]
    /\ reqs' = [reqs EXCEPT ![c] = <<>>]
    /\ held' = [held EXCEPT ![c] = {}]

Fail(msg) ==
    /\ result' = Some(msg)
    /\ dpc' = "done"

\* the token call is over: its error is returned, or the one request is sent
ApiRequest_Unauthenticated ==
    /\ dpc = "api_token"
    /\ pc[Main] \in {"ok", "err"}
    /\ calls' = Append(calls, [op |-> Unwrap(api).op, token |-> ret[Main],
                              request |-> Unwrap(api).request])
    /\ dpc' = "api_wait"
    /\ UNCHANGED <<result, api>>
    /\ pc' = [pc EXCEPT ![Main] = "idle"]
    /\ UNCHANGED <<config, readers, writer, on, ret, now, issued, obs, reqs, held, lastGrant>>
    /\ UNCHANGED daemonVars
    /\ UNCHANGED <<reminders_json, contact_id, settings, conversation, mock, reminders,
                   latest_conversation, contact, rule_to_apply>>
ApiRequest ==
    /\ dpc = "api_token"
    /\ pc[Main] \in {"ok", "err"}
    /\ IF pc[Main] = "err"
       THEN /\ Fail("Failed to get token with password credentials")
            /\ api' = None
            /\ calls' = calls
       ELSE /\ calls' = Append(calls, [op |-> Unwrap(api).op, token |-> ret[Main],
                                       request |-> Unwrap(api).request])
            /\ dpc' = "api_wait"
            /\ UNCHANGED <<result, api>>
    /\ pc' = [pc EXCEPT ![Main] = "idle"]
    /\ UNCHANGED <<config, readers, writer, on, ret, now, issued, obs, reqs, held, lastGrant>>
    /\ UNCHANGED daemonVars
    /\ UNCHANGED <<reminders_json, contact_id, settings, conversation, mock, reminders,
                   latest_conversation, contact, rule_to_apply>>

-----------------------------------------------------------------------------
(* cmd/reminders.rs: send_reminder_to_contact *)

\* config::load_reminders(): a missing file is an empty list
LoadReminders(file) ==
    IF file.kind = "unreadable" THEN None
    ELSE IF file.kind = "missing" THEN Some(<<>>) ELSE Some(file.rules)

\* reminders.is_empty()
IsEmpty_Never(rules) == FALSE
IsEmpty(rules) == Len(rules) = 0

\* lines 80-89: the embedded reference to use, if any
ContactRef_SenderFirst(conv) ==
    IF conv.from_contact # None /\ Unwrap(conv.from_contact).id # NIL_UUID
    THEN conv.from_contact
    ELSE IF conv.to_contact # None /\ Unwrap(conv.to_contact).id # NIL_UUID
         THEN conv.to_contact
         ELSE None
ContactRef(conv) ==
    IF conv.to_contact # None /\ Unwrap(conv.to_contact).id # NIL_UUID
    THEN conv.to_contact
    ELSE IF conv.from_contact # None /\ Unwrap(conv.from_contact).id # NIL_UUID
         THEN conv.from_contact
         ELSE None

\* lines 49-75: load the rules, build the client, take or fetch the conversation
DispatchLoad ==
    /\ dpc = "load"
    /\ IF LoadReminders(reminders_json) = None
       THEN /\ Fail("Failed to load reminders.json.")
            /\ UNCHANGED <<config, pc, on, ret, obs, reqs, held, reminders,
                           latest_conversation, api>>
       ELSE IF IsEmpty(Unwrap(LoadReminders(reminders_json)))
       THEN /\ result' = Some("Ok")
            /\ dpc' = "done"
            /\ UNCHANGED <<config, pc, on, ret, obs, reqs, held, reminders,
                           latest_conversation, api>>
       ELSE /\ reminders' = Unwrap(LoadReminders(reminders_json))
            /\ config' = [config EXCEPT !["send"] = settings]
            /\ result' = result
            /\ IF conversation # None
               THEN /\ latest_conversation' = conversation
                    /\ dpc' = "resolve"
                    /\ UNCHANGED <<pc, on, ret, obs, reqs, held, api>>
               ELSE /\ StartCall(Main, "send")
                    /\ api' = Some([op |-> "get_conversation_messages", request |-> contact_id])
                    /\ dpc' = "api_token"
                    /\ latest_conversation' = latest_conversation
    /\ UNCHANGED <<readers, writer, now, issued, lastGrant, calls>>
    /\ UNCHANGED daemonVars
    /\ UNCHANGED <<reminders_json, contact_id, settings, conversation, mock, contact,
                   rule_to_apply>>

\* get_conversation_messages answers: an error, or a list whose first element is taken
ConversationsReply ==
    /\ dpc = "api_wait"
    /\ Unwrap(api).op = "get_conversation_messages"
    /\ \/ /\ Fail("Failed to fetch conversations")
          /\ latest_conversation' = latest_conversation
       \/ /\ Fail("No conversation found")
          /\ latest_conversation' = latest_conversation
       \/ \E conv \in Conversations :
             /\ latest_conversation' = Some(conv)
             /\ dpc' = "resolve"
             /\ result' = result
    /\ api' = None
    /\ UNCHANGED tokenVars
    /\ UNCHANGED daemonVars
    /\ UNCHANGED <<reminders_json, contact_id, settings, conversation, mock, reminders,
                   contact, rule_to_apply>>

\* lines 77-101: the embedded contact, or the lookup by contact_id
DispatchResolve_Recipient ==
    /\ dpc = "resolve"
    /\ IF conversation # None \/ ContactRef(Unwrap(latest_conversation)) # None
       THEN /\ contact' = IF conversation # None THEN Unwrap(conversation).to_contact
                           ELSE ContactRef(Unwrap(latest_conversation))
            /\ dpc' = "select"
            /\ UNCHANGED <<pc, on, ret, obs, reqs, held, api>>
       ELSE /\ StartCall(Main, "send")
            /\ api' = Some([op |-> "get_messaging_product_contact_by_id", request |-> contact_id])
            /\ dpc' = "api_token"
            /\ contact' = contact
    /\ UNCHANGED <<config, readers, writer, now, issued, lastGrant, calls>>
    /\ UNCHANGED daemonVars
    /\ UNCHANGED <<reminders_json, contact_id, settings, conversation, mock, reminders,
                   latest_conversation, rule_to_apply, result>>
DispatchResolve ==
    /\ dpc = "resolve"
    /\ IF ContactRef(Unwrap(latest_conversation)) # None
       THEN /\ contact' = ContactRef(Unwrap(latest_conversation))
            /\ dpc' = "select"
            /\ UNCHANGED <<pc, on, ret, obs, reqs, held, api>>
       ELSE /\ StartCall(Main, "send")
            /\ api' = Some([op |-> "get_messaging_product_contact_by_id", request |-> contact_id])
            /\ dpc' = "api_token"
            /\ contact' = contact
    /\ UNCHANGED <<config, readers, writer, now, issued, lastGrant, calls>>
    /\ UNCHANGED daemonVars
    /\ UNCHANGED <<reminders_json, contact_id, settings, conversation, mock, reminders,
                   latest_conversation, rule_to_apply, result>>

\* get_messaging_product_contact_by_id answers: an error, no contact, or the contact
ContactReply ==
    /\ dpc = "api_wait"
    /\ Unwrap(api).op = "get_messaging_product_contact_by_id"
    /\ \/ /\ Fail("Failed to fetch messaging product contact")
          /\ contact' = contact
       \/ /\ Fail("No messaging product contact found")
          /\ contact' = contact
       \/ \E m \in MpcVariants(contact_id) :
             /\ contact' = Some(m)
             /\ dpc' = "select"
             /\ result' = result
    /\ api' = None
    /\ UNCHANGED tokenVars
    /\ UNCHANGED daemonVars
    /\ UNCHANGED <<reminders_json, contact_id, settings, conversation, mock, reminders,
                   latest_conversation, rule_to_apply>>

\* lines 103-112 and the else arm of line 171
DispatchSelect ==
    /\ dpc = "select"
    /\ LET found == SelectRule(reminders, Unwrap(latest_conversation).updated_at, now)
       IN  /\ rule_to_apply' = found.rule
           /\ dpc' = IF found.kind = "panic" THEN "panic"
                     ELSE IF found.kind = "some" THEN "act" ELSE "done"
           /\ result' = IF found.kind = "none" THEN Some("Ok") ELSE result
    /\ UNCHANGED tokenVars
    /\ UNCHANGED daemonVars
    /\ UNCHANGED <<reminders_json, contact_id, settings, conversation, mock, reminders,
                   latest_conversation, contact, api>>

\* SendWhatsAppMessage { to_id: contact_id, sender_data: { .., to: product_details.wa_id } }
MessageToSend ==
    [to_id |-> contact_id, to |-> Unwrap(Unwrap(contact).product_details).wa_id]

\* lines 114-170: the contact details, then the rule's action
DispatchAct ==
    /\ dpc = "act"
    /\ LET action == Unwrap(rule_to_apply).action
       IN  IF Unwrap(contact).contact = None
           THEN /\ Fail("Messaging product is missing contact details")
                /\ UNCHANGED <<pc, on, ret, obs, reqs, held, api>>
           ELSE IF action = None
           THEN /\ result' = Some("Ok")
                /\ dpc' = "done"
                /\ UNCHANGED <<pc, on, ret, obs, reqs, held, api>>
           ELSE IF action = Some("wacraft_message") /\ Unwrap(contact).product_details = None
           THEN /\ Fail("Contact missing product details")
                /\ UNCHANGED <<pc, on, ret, obs, reqs, held, api>>
           ELSE IF mock
           THEN /\ result' = Some("Ok")
                /\ dpc' = "done"
                /\ UNCHANGED <<pc, on, ret, obs, reqs, held, api>>
           ELSE IF action = Some("wacraft_message")
           THEN /\ StartCall(Main, "send")
                /\ api' = Some([op |-> "send_message", request |-> MessageToSend])
                /\ dpc' = "api_token"
                /\ result' = result
           ELSE /\ dpc' = Unwrap(action)
                /\ UNCHANGED <<pc, on, ret, obs, reqs, held, api, result>>
    /\ UNCHANGED <<config, readers, writer, now, issued, lastGrant, calls>>
    /\ UNCHANGED daemonVars
    /\ UNCHANGED <<reminders_json, contact_id, settings, conversation, mock, reminders,
                   latest_conversation, contact, rule_to_apply>>

\* send_message answers
SendReply ==
    /\ dpc = "api_wait"
    /\ Unwrap(api).op = "send_message"
    /\ \/ Fail("Failed to send WhatsApp message")
       \/ /\ result' = Some("Ok")
          /\ dpc' = "done"
    /\ api' = None
    /\ UNCHANGED tokenVars
    /\ UNCHANGED daemonVars
    /\ UNCHANGED <<reminders_json, contact_id, settings, conversation, mock, reminders,
                   latest_conversation, contact, rule_to_apply>>

\* core/email: the address is required, the template is read, the mail goes out
SendReminderEmail ==
    /\ dpc = "email"
    /\ LET ctt == Unwrap(Unwrap(contact).contact)
       IN  IF ctt.email = None
           THEN /\ Fail("Contact has no email address.")
                /\ calls' = calls
           ELSE \/ /\ Fail("Failed to read email template")
                   /\ calls' = calls
                \/ /\ calls' = Append(calls, [op |-> "email", token |-> None,
                                             request |-> Unwrap(ctt.email)])
                   /\ dpc' = "transport_wait"
                   /\ result' = result
    /\ UNCHANGED <<config, readers, writer, pc, on, ret, now, issued, obs, reqs, held, lastGrant>>
    /\ UNCHANGED daemonVars
    /\ UNCHANGED <<reminders_json, contact_id, settings, conversation, mock, reminders,
                   latest_conversation, contact, rule_to_apply, api>>

\* a text is a sequence of chunks (the empty text is <<>>), a template a
\* sequence of texts, some of them placeholders
Text(chunk) == <<chunk>>
\* the http_request action of the rules: url, a header value and the body
HttpRequestAction ==
    [url    |-> <<Text("https://x/"), Text("{contact_id}")>>,
     header |-> <<Text("{contact_name}"), Text(";"), Text("{contact_email}")>>,
     body   |-> <<Text("{contact_id}"), Text("{contact_email}"), Text("{contact_name}"),
                  Text("{contact_id}")>>]
\* str::replace: every occurrence of `from` becomes `to`
Replace(template, from, to) ==
    [i \in DOMAIN template |-> IF template[i] = from THEN to ELSE template[i]]
\* replace_placeholders: the id, the name and the email of the Contact, or ""
ReplacePlaceholders(template, ctt) ==
    LET email == IF ctt.email = None THEN <<>> ELSE Unwrap(ctt.email)
    IN  Replace(Replace(Replace(template, Text("{contact_id}"), ctt.id),
                        Text("{contact_name}"), ctt.name),
                Text("{contact_email}"), email)
\* lines 12-34: the url, the header values and the body of the request
HttpRequest(ctt) ==
    [url    |-> ReplacePlaceholders(HttpRequestAction.url, ctt),
     header |-> ReplacePlaceholders(HttpRequestAction.header, ctt),
     body   |-> ReplacePlaceholders(HttpRequestAction.body, ctt)]

\* core/http_request: the request goes out
SendHttpRequest_Twice ==
    /\ dpc = "http_request"
    /\ calls' = calls \o << [op |-> "http_request", token |-> None,
                              request |-> HttpRequest(Unwrap(Unwrap(contact).contact))],
                            [op |-> "http_request", token |-> None,
                              request |-> HttpRequest(Unwrap(Unwrap(contact).contact))] >>
    /\ dpc' = "transport_wait"
    /\ UNCHANGED <<config, readers, writer, pc, on, ret, now, issued, obs, reqs, held, lastGrant>>
    /\ UNCHANGED daemonVars
    /\ UNCHANGED <<reminders_json, contact_id, settings, conversation, mock, reminders,
                   latest_conversation, contact, rule_to_apply, result, api>>
SendHttpRequest ==
    /\ dpc = "http_request"
    /\ calls' = Append(calls, [op |-> "http_request", token |-> None,
                              request |-> HttpRequest(Unwrap(Unwrap(contact).contact))])
    /\ dpc' = "transport_wait"
    /\ UNCHANGED <<config, readers, writer, pc, on, ret, now, issued, obs, reqs, held, lastGrant>>
    /\ UNCHANGED daemonVars
    /\ UNCHANGED <<reminders_json, contact_id, settings, conversation, mock, reminders,
                   latest_conversation, contact, rule_to_apply, result, api>>

\* the SMTP server or the webhook answers
TransportReply ==
    /\ dpc = "transport_wait"
    /\ \/ Fail("Failed to send")
       \/ /\ result' = Some("Ok")
          /\ dpc' = "done"
    /\ UNCHANGED tokenVars
    /\ UNCHANGED daemonVars
    /\ UNCHANGED <<reminders_json, contact_id, settings, conversation, mock, reminders,
                   latest_conversation, contact, rule_to_apply, api>>

-----------------------------------------------------------------------------
(* one dispatch: `reminders send --contact-id ..` (no conversation given), or *)
(* the daemon's call for a conversation of a page (its recipient's id given)  *)

InitDispatch ==
    /\ config = [k \in Clients |-> BlankConfig]
    /\ readers = [k \in Clients |-> {}]
    /\ writer = [k \in Clients |-> {}]
    /\ pc = [c \in Callers |-> "idle"]
    /\ on = [c \in Callers |-> "send"]
    /\ ret = [c \in Callers |-> None]
    /\ now = 0
    /\ issued = 0
    /\ obs = [c \in Callers |-> <<>>]
    /\ reqs = [c \in Callers |-> <<>>]
    /\ held = [c \in Callers |-> {}]
    /\ lastGrant = None
    /\ calls = <<>>
    /\ reminders_json \in RemindersFiles(SeqsUpTo(DispatchRules, MaxRules))
    /\ settings \in SettingsSeeds
    /\ mock \in BOOLEAN
    /\ \/ /\ conversation = None
          /\ contact_id = "c1"
       \/ /\ conversation \in {Some(conv) : conv \in {v \in Conversations : v.to_contact # None}}
          /\ contact_id = Unwrap(Unwrap(conversation).to_contact).id
    /\ dpc = "load"
    /\ reminders = <<>>
    /\ latest_conversation = None
    /\ contact = None
    /\ rule_to_apply = None
    /\ result = None
    /\ api = None
    /\ NoDaemon

NextDispatch ==
    \/ DispatchLoad
    \/ ApiRequest
    \/ ConversationsReply
    \/ DispatchResolve
    \/ ContactReply
    \/ DispatchSelect
    \/ DispatchAct
    \/ SendReply
    \/ SendReminderEmail
    \/ SendHttpRequest
    \/ TransportReply
    \/ TokenStep(Main)

SpecDispatch == InitDispatch /\ [][NextDispatch]_vars

-----------------------------------------------------------------------------
(* the rule selection of one dispatch, on every rule list and inactivity *)

\* thresholds: small ones, one past Duration's range, and u64::MAX (-1 as i64)
SelectHours == {0, 24, 72, 2 ^ (HourBits - 1) - 1, 2 ^ HourBits - 1}
SelectRules == {Rule(n, h, None) : n \in {"A", "B"}, h \in SelectHours}
SelectUpdatedAts ==
    {0 - 80 * Hour, 0 - 72 * Hour, 0 - 30 * Hour, 0, Hour \div 2, 2 * Hour}

InitSelect ==
    /\ config = [k \in Clients |-> BlankConfig]
    /\ readers = [k \in Clients |-> {}]
    /\ writer = [k \in Clients |-> {}]
    /\ pc = [c \in Callers |-> "idle"]
    /\ on = [c \in Callers |-> "send"]
    /\ ret = [c \in Callers |-> None]
    /\ now = 0
    /\ issued = 0
    /\ obs = [c \in Callers |-> <<>>]
    /\ reqs = [c \in Callers |-> <<>>]
    /\ held = [c \in Callers |-> {}]
    /\ lastGrant = None
    /\ calls = <<>>
    /\ reminders \in SeqsUpTo(SelectRules, MaxSelectRules) \ {<<>>}
    /\ reminders_json = [kind |-> "file", rules |-> reminders]
    /\ settings = BlankConfig
    /\ mock = FALSE
    /\ \E t \in SelectUpdatedAts :
          conversation = Some([to_contact |-> Some(FullMpc("c1")), from_contact |-> None,
                               updated_at |-> t])
    /\ contact_id = "c1"
    /\ latest_conversation = conversation
    /\ contact = Some(FullMpc("c1"))
    /\ dpc = "select"
    /\ rule_to_apply = None
    /\ result = None
    /\ api = None
    /\ NoDaemon

NextSelect == DispatchSelect \/ DispatchAct

SpecSelect == InitSelect /\ [][NextSelect]_vars

-----------------------------------------------------------------------------
(* N tasks call get_valid_token on one shared client *)

\* WacraftConfig as settings.json may hold it: every field is optional on its own
SeedConfigs ==
    [access_token : {None, Some(0)},
     refresh_token : {None, Some(0)},
     token_expires_at : {None} \cup {Some(e) : e \in SeedExpiry}]

InitToken ==
    /\ \E seed \in SeedConfigs : config = [k \in Clients |-> IF k = "cycle" THEN seed ELSE BlankConfig]
    /\ readers = [k \in Clients |-> {}]
    /\ writer = [k \in Clients |-> {}]
    /\ pc = [c \in Callers |-> "start"]
    /\ on = [c \in Callers |-> "cycle"]
    /\ ret = [c \in Callers |-> None]
    /\ now = 0
    /\ issued = 0
    /\ obs = [c \in Callers |-> <<>>]
    /\ reqs = [c \in Callers |-> <<>>]
    /\ held = [c \in Callers |-> {}]
    /\ lastGrant = None
    /\ calls = <<>>
    /\ NoDispatch
    /\ NoDaemon

NextToken == (\E c \in Callers : TokenStep(c)) \/ ClockTick

SpecToken == InitToken /\ [][NextToken]_vars

\* the calls' progress: a client without credentials, one whose token is at
\* the margin and one whose token is valid; the clock stands still
LiveSeeds ==
    {BlankConfig} \cup
    {[access_token |-> Some(0), refresh_token |-> Some(0), token_expires_at |-> Some(e)] :
        e \in {Margin, Margin + 1}}

InitTokenLive ==
    /\ InitToken
    /\ config["cycle"] \in LiveSeeds

NextTokenLive == \E c \in Callers : TokenStep(c)

\* every task is scheduled again and again, the guards are granted as soon as
\* they are free, and the token endpoint answers every request
SpecTokenLive ==
    /\ InitTokenLive
    /\ [][NextTokenLive]_vars
    /\ \A c \in Callers : WF_vars(TokenStep(c))

-----------------------------------------------------------------------------
(* daemon/mod.rs: run_daemon_process and process_reminders_cycle *)

\* the conversations a page may hold: a recipient with everything, no
\* recipient, a recipient without contact details, the sentinel recipient
DaemonConversations ==
    {[to_contact |-> Some(FullMpc("c1")), from_contact |-> None, updated_at |-> 0 - 80 * Hour],
     [to_contact |-> None, from_contact |-> Some(FullMpc("c2")), updated_at |-> 0 - 80 * Hour],
     [to_contact |-> Some(Mpc("c1", None, None)), from_contact |-> None,
      updated_at |-> 0 - 80 * Hour],
     [to_contact |-> Some(SentinelMpc), from_contact |-> None, updated_at |-> 0 - 80 * Hour]}

\* a page of get_conversations that is not empty
Pages ==
    {<<c>> : c \in DaemonConversations} \cup {<<c, d>> : c, d \in DaemonConversations}

\* --batch-size: the smallest, and half of the offset's range
BatchSizes == {1, 2 ^ (OffsetBits - 1)}

\* reminders.json under the daemon: absent, a webhook rule, a rule whose
\* threshold is beyond Duration's range
DaemonRules ==
    RemindersFiles({<<Rule("H", 48, Some("http_request"))>>,
                    <<Rule("P", 2 ^ (HourBits - 1) - 1, None)>>})

\* history: the logs describe the operation in progress (a page fetch, a
\* dispatch) and are cut where it returns
CutLog ==
    /\ obs' = [obs EXCEPT ![Main] = <<>>]
    /\ reqs' = [reqs EXCEPT ![Main] = <<>>]
    /\ held' = [held EXCEPT ![Main] = {}]
    /\ ret' = [ret EXCEPT ![Main] = None]
    /\ calls' = <<>>
    /\ lastGrant' = None

\* interval(period): a deadline passes; missed deadlines are kept (Burst)
TimerElapse ==
    /\ dstate \notin {"off", "panic"}
    /\ due < MaxDue
    /\ due' = due + 1
    /\ UNCHANGED <<tokenVars, dispatchVars>>
    /\ UNCHANGED <<remote, received, loaded, settings_json, batch_size, dstate, offset, page, running, fetches,
                   had_error, cycle_result>>

\* the loop is at `timer.tick().await`
AwaitingTick_Spawned == dstate # "off"
AwaitingTick == dstate = "await_tick"

\* lines 60-63: the tick completes and the cycle is called
TickStart ==
    /\ AwaitingTick
    /\ due > 0
    /\ due' = due - 1
    /\ dstate' = "cycle"
    /\ running' = running + 1
    /\ fetches' = <<>>
    /\ had_error' = FALSE
    /\ cycle_result' = None
    /\ CutLog
    /\ issued' = 0
    /\ UNCHANGED <<config, readers, writer, pc, on, now>>
    /\ UNCHANGED dispatchVars
    /\ loaded' = {}
    /\ UNCHANGED <<remote, received, settings_json, batch_size, offset, page>>

\* process_reminders_cycle returns; an error is logged by the loop (lines 63-65)
CycleEnd(res) ==
    /\ cycle_result' = Some(res)
    /\ dstate' = "await_tick"
    /\ running' = running - 1

\* lines 71-73: the settings, the cycle's client, offset = 0
CycleLoad ==
    /\ dstate = "cycle"
    /\ IF settings_json = None
       THEN /\ CycleEnd("Daemon: Failed to load settings.json")
            /\ UNCHANGED <<settings, config, offset>>
       ELSE /\ settings' = Unwrap(settings_json)
            /\ config' = [config EXCEPT !["cycle"] = Unwrap(settings_json)]
            /\ offset' = 0
            /\ dstate' = "fetch"
            /\ UNCHANGED <<cycle_result, running>>
    /\ UNCHANGED <<readers, writer, pc, on, ret, now, issued, obs, reqs, held, lastGrant, calls>>
    /\ UNCHANGED <<reminders_json, contact_id, conversation, mock, dpc, reminders,
                   latest_conversation, contact, rule_to_apply, result, api>>
    /\ UNCHANGED <<remote, received, loaded, settings_json, batch_size, due, page, fetches, had_error>>

\* lines 81-83: client.get_conversations(batch_size, offset, None) begins
FetchStart ==
    /\ dstate = "fetch"
    /\ StartCall(Main, "cycle")
    /\ fetches' = Append(fetches, [limit |-> batch_size, offset |-> offset,
                                   outcome |-> "pending"])
    /\ dstate' = "fetch_token"
    /\ UNCHANGED <<config, readers, writer, now, issued, lastGrant, calls>>
    /\ UNCHANGED dispatchVars
    /\ UNCHANGED <<remote, received, loaded, settings_json, batch_size, due, offset, page, running, had_error,
                   cycle_result>>

\* line 84: the fetch's error leaves the cycle with `?`
FetchFailure_Retry(err) ==
    /\ fetches' = [fetches EXCEPT ![Len(fetches)].outcome = "failed"]
    /\ dstate' = "fetch"
    /\ UNCHANGED <<cycle_result, running>>
FetchFailure(err) ==
    /\ fetches' = [fetches EXCEPT ![Len(fetches)].outcome = "failed"]
    /\ CycleEnd(err)

\* get_conversations: the token call is over; its error is returned, or the
\* request is sent
FetchRequest ==
    /\ dstate = "fetch_token"
    /\ pc[Main] \in {"ok", "err"}
    /\ IF pc[Main] = "err"
       THEN /\ FetchFailure("Daemon: Failed to fetch conversations batch")
            /\ calls' = calls
       ELSE /\ calls' = Append(calls, [op |-> "get_conversations", token |-> ret[Main],
                                       request |-> [limit |-> batch_size, offset |-> offset]])
            /\ dstate' = "fetch_wait"
            /\ UNCHANGED <<fetches, cycle_result, running>>
    /\ pc' = [pc EXCEPT ![Main] = "idle"]
    /\ UNCHANGED <<config, readers, writer, on, ret, now, issued, obs, reqs, held, lastGrant>>
    /\ UNCHANGED dispatchVars
    /\ UNCHANGED <<remote, received, loaded, settings_json, batch_size, due, offset, page, had_error>>

\* get_conversations answers: an error, an empty page (lines 86-89, 107-108:
\* the cycle is over), or a page
FetchReply ==
    /\ dstate = "fetch_wait"
    /\ \/ /\ FetchFailure("Daemon: Failed to fetch conversations batch")
          /\ page' = page
       \/ /\ fetches' = [fetches EXCEPT ![Len(fetches)].outcome = "empty"]
          /\ CycleEnd("Ok")
          /\ page' = page
       \/ /\ Len(fetches) <= MaxPages
          /\ \E p \in Pages : page' = p
          /\ fetches' = [fetches EXCEPT ![Len(fetches)].outcome = "page"]
          /\ dstate' = "page"
          /\ UNCHANGED <<cycle_result, running>>
    /\ CutLog
    /\ UNCHANGED <<config, readers, writer, pc, on, now, issued>>
    /\ UNCHANGED dispatchVars
    /\ UNCHANGED <<remote, received, loaded, settings_json, batch_size, due, offset, had_error>>

\* offset += batch_size on a u32: Some(sum), or None where the sum overflows
CheckedAdd(a, b) == IF a + b < 2 ^ OffsetBits THEN Some(a + b) ELSE None

\* lines 91-105: the next conversation of the page is dispatched if it has a
\* recipient; after the last one the offset moves on.  An overflowing sum
\* panics where overflow checks are compiled in and wraps where they are not.
PageNext ==
    /\ dstate = "page"
    /\ IF page = <<>>
       THEN /\ IF CheckedAdd(offset, batch_size) # None
               THEN /\ offset' = Unwrap(CheckedAdd(offset, batch_size))
                    /\ dstate' = "fetch"
               ELSE \/ /\ dstate' = "panic"
                       /\ offset' = offset
                    \/ /\ offset' = (offset + batch_size) % (2 ^ OffsetBits)
                       /\ dstate' = "fetch"
            /\ UNCHANGED <<page, contact_id, conversation, dpc, reminders,
                           latest_conversation, contact, rule_to_apply, result>>
       ELSE /\ page' = Tail(page)
            /\ offset' = offset
            /\ IF Head(page).to_contact = None
               THEN UNCHANGED <<dstate, contact_id, conversation, dpc, reminders,
                                latest_conversation, contact, rule_to_apply, result>>
               ELSE /\ contact_id' = Unwrap(Head(page).to_contact).id
                    /\ conversation' = Some(Head(page))
                    /\ dpc' = "load"
                    /\ reminders' = <<>>
                    /\ latest_conversation' = None
                    /\ contact' = None
                    /\ rule_to_apply' = None
                    /\ result' = None
                    /\ dstate' = "dispatch"
    /\ UNCHANGED tokenVars
    /\ UNCHANGED <<reminders_json, settings, mock, api>>
    /\ UNCHANGED <<remote, received, loaded, settings_json, batch_size, due, running, fetches, had_error, cycle_result>>

\* lines 94-102: Ok and Err are both logged, the loop goes on; the dispatch's
\* locals and its client are dropped
DispatchReturn ==
    /\ dstate = "dispatch"
    /\ dpc = "done"
    /\ had_error' = (had_error \/ result # Some("Ok"))
    /\ dpc' = "idle"
    /\ dstate' = "page"
    /\ contact_id' = ""
    /\ conversation' = None
    /\ reminders' = <<>>
    /\ latest_conversation' = None
    /\ contact' = None
    /\ rule_to_apply' = None
    /\ result' = None
    /\ config' = [config EXCEPT !["send"] = BlankConfig]
    /\ CutLog
    /\ UNCHANGED <<readers, writer, pc, on, now, issued>>
    /\ UNCHANGED <<reminders_json, settings, mock, api>>
    /\ loaded' = loaded \cup {reminders}
    /\ UNCHANGED <<remote, received, settings_json, batch_size, due, offset, page, running,
                   fetches, cycle_result>>

\* a panic inside the dispatch unwinds through the loop and main: the process ends
DispatchPanic ==
    /\ dstate = "dispatch"
    /\ dpc = "panic"
    /\ dstate' = "panic"
    /\ UNCHANGED <<tokenVars, dispatchVars>>
    /\ UNCHANGED <<remote, received, loaded, settings_json, batch_size, due, offset, page, running, fetches,
                   had_error, cycle_result>>

\* `daemon run`: the loop has been entered; interval's first tick is immediate
InitDaemon ==
    /\ config = [k \in Clients |-> BlankConfig]
    /\ readers = [k \in Clients |-> {}]
    /\ writer = [k \in Clients |-> {}]
    /\ pc = [c \in Callers |-> "idle"]
    /\ on = [c \in Callers |-> "cycle"]
    /\ ret = [c \in Callers |-> None]
    /\ now = 0
    /\ issued = 0
    /\ obs = [c \in Callers |-> <<>>]
    /\ reqs = [c \in Callers |-> <<>>]
    /\ held = [c \in Callers |-> {}]
    /\ lastGrant = None
    /\ calls = <<>>
    /\ reminders_json \in DaemonRules
    /\ contact_id = ""
    /\ settings = BlankConfig
    /\ conversation = None
    /\ mock \in BOOLEAN
    /\ dpc = "idle"
    /\ reminders = <<>>
    /\ latest_conversation = None
    /\ contact = None
    /\ rule_to_apply = None
    /\ result = None
    /\ api = None
    /\ settings_json \in {None} \cup {Some(seed) : seed \in SettingsSeeds}
    /\ batch_size \in BatchSizes
    /\ dstate = "await_tick"
    /\ due = 1
    /\ offset = 0
    /\ page = <<>>
    /\ running = 0
    /\ fetches = <<>>
    /\ had_error = FALSE
    /\ cycle_result = None
    /\ loaded = {}
    /\ remote = <<>>
    /\ received = 0

\* the daemon hands every dispatch its conversation, and the rules here have
\* no wacraft_message and no email action: the steps of the dispatch that
\* fetch the conversation, send the message or send the email cannot occur
NextDaemon ==
    \/ TimerElapse
    \/ TickStart
    \/ CycleLoad
    \/ FetchStart
    \/ FetchRequest
    \/ FetchReply
    \/ PageNext
    \/ DispatchReturn
    \/ DispatchPanic
    \/ DispatchLoad
    \/ ApiRequest
    \/ DispatchResolve
    \/ ContactReply
    \/ DispatchSelect
    \/ DispatchAct
    \/ SendHttpRequest
    \/ TransportReply
    \/ TokenStep(Main)

SpecDaemon == InitDaemon /\ [][NextDaemon]_vars

\* the process keeps running, every request is answered, the timer keeps firing
SpecDaemonLive == SpecDaemon /\ WF_vars(NextDaemon)

\* reminders.json is a file: it is read by load_reminders at every dispatch and
\* can be rewritten by its owner while the daemon runs
RewriteRules ==
    /\ dstate \notin {"off", "panic"}
    /\ reminders_json' \in DaemonRules \ {reminders_json}
    /\ UNCHANGED <<tokenVars, daemonVars>>
    /\ UNCHANGED <<contact_id, settings, conversation, mock, dpc, reminders,
                   latest_conversation, contact, rule_to_apply, result, api>>

NextDaemonEdit == NextDaemon \/ RewriteRules

\* the daemon next to an editor of reminders.json
SpecDaemonEdit == InitDaemon /\ [][NextDaemonEdit]_vars

-----------------------------------------------------------------------------
(* the daemon against a server whose list of conversations stays as it is,   *)
(* a webhook receiver that counts what it accepts, and a clock that moves by *)
(* the interval at every deadline                                            *)

\* the longest list of the server, and the ticks the clock allows
MaxRemote == 5
MaxTicks == 2
\* --interval, in seconds (the default)
Interval == 3600

\* a conversation with a recipient, and one without
WithRecipient ==
    [to_contact |-> Some(FullMpc("c1")), from_contact |-> None, updated_at |-> 0 - 80 * Hour]
WithoutRecipient ==
    [to_contact |-> None, from_contact |-> Some(FullMpc("c2")), updated_at |-> 0 - 80 * Hour]
\* the server's list: up to MaxRemote conversations, at most one of them
\* without a recipient, at any place
RemoteLists ==
    UNION {{[i \in 1..n |-> IF i = w THEN WithoutRecipient ELSE WithRecipient] : w \in 0..n} :
           n \in 0..MaxRemote}
\* reminders.json here: also a webhook rule next to the rule whose threshold
\* is beyond Duration's range
TickRules ==
    RemindersFiles({<<Rule("H", 48, Some("http_request"))>>,
                    <<Rule("P", 2 ^ (HourBits - 1) - 1, None)>>,
                    <<Rule("H", 48, Some("http_request")),
                      Rule("P", 2 ^ (HourBits - 1) - 1, None)>>})

Min(a, b) == IF a <= b THEN a ELSE b
\* the server's answer to limit and offset: that part of its list
PageOf(list, off, limit) == SubSeq(list, off + 1, Min(off + limit, Len(list)))

\* interval(period): a deadline passes, one period later
IntervalElapse ==
    /\ dstate \notin {"off", "panic"}
    /\ due < MaxDue
    /\ now < (MaxTicks - 1) * Interval
    /\ now' = now + Interval
    /\ due' = due + 1
    /\ UNCHANGED <<config, readers, writer, pc, on, ret, issued, obs, reqs, held, lastGrant,
                   calls>>
    /\ UNCHANGED dispatchVars
    /\ UNCHANGED <<remote, received, loaded, settings_json, batch_size, dstate, offset, page,
                   running, fetches, had_error, cycle_result>>

\* get_conversations answers with the part of the server's list that limit
\* and offset name: an empty page (lines 86-89: the cycle is over), or a page
FetchReplyListed ==
    /\ dstate = "fetch_wait"
    /\ IF PageOf(remote, offset, batch_size) = <<>>
       THEN /\ fetches' = [fetches EXCEPT ![Len(fetches)].outcome = "empty"]
            /\ CycleEnd("Ok")
            /\ page' = page
       ELSE /\ Len(fetches) <= MaxRemote + 1
            /\ page' = PageOf(remote, offset, batch_size)
            /\ fetches' = [fetches EXCEPT ![Len(fetches)].outcome = "page"]
            /\ dstate' = "page"
            /\ UNCHANGED <<cycle_result, running>>
    /\ CutLog
    /\ UNCHANGED <<config, readers, writer, pc, on, now, issued>>
    /\ UNCHANGED dispatchVars
    /\ UNCHANGED <<remote, received, loaded, settings_json, batch_size, due, offset, had_error>>

\* the webhook's receiver answers: it refuses, or it accepts and counts
WebhookReceive ==
    /\ dpc = "transport_wait"
    /\ \/ /\ Fail("Failed to send")
          /\ received' = received
       \/ /\ result' = Some("Ok")
          /\ dpc' = "done"
          /\ received' = received + 1
    /\ UNCHANGED tokenVars
    /\ UNCHANGED <<remote, loaded, settings_json, batch_size, dstate, due, offset, page,
                   running, fetches, had_error, cycle_result>>
    /\ UNCHANGED <<reminders_json, contact_id, settings, conversation, mock, reminders,
                   latest_conversation, contact, rule_to_apply, api>>

InitTick ==
    /\ config = [k \in Clients |-> BlankConfig]
    /\ readers = [k \in Clients |-> {}]
    /\ writer = [k \in Clients |-> {}]
    /\ pc = [c \in Callers |-> "idle"]
    /\ on = [c \in Callers |-> "cycle"]
    /\ ret = [c \in Callers |-> None]
    /\ now = 0
    /\ issued = 0
    /\ obs = [c \in Callers |-> <<>>]
    /\ reqs = [c \in Callers |-> <<>>]
    /\ held = [c \in Callers |-> {}]
    /\ lastGrant = None
    /\ calls = <<>>
    /\ reminders_json \in TickRules
    /\ contact_id = ""
    /\ settings = BlankConfig
    /\ conversation = None
    /\ mock \in BOOLEAN
    /\ dpc = "idle"
    /\ reminders = <<>>
    /\ latest_conversation = None
    /\ contact = None
    /\ rule_to_apply = None
    /\ result = None
    /\ api = None
    /\ settings_json \in {Some(seed) : seed \in SettingsSeeds}
    /\ batch_size \in BatchSizes
    /\ dstate = "await_tick"
    /\ due = 1
    /\ offset = 0
    /\ page = <<>>
    /\ running = 0
    /\ fetches = <<>>
    /\ had_error = FALSE
    /\ cycle_result = None
    /\ loaded = {}
    /\ remote \in RemoteLists
    /\ received = 0

\* the conversations here carry their contact and the rules have no
\* wacraft_message and no email action: the dispatch asks the API for nothing
NextTick ==
    \/ IntervalElapse
    \/ TickStart
    \/ CycleLoad
    \/ FetchStart
    \/ FetchRequest
    \/ FetchReplyListed
    \/ PageNext
    \/ DispatchReturn
    \/ DispatchPanic
    \/ DispatchLoad
    \/ DispatchResolve
    \/ DispatchSelect
    \/ DispatchAct
    \/ SendHttpRequest
    \/ WebhookReceive
    \/ TokenStep(Main)

SpecTick == InitTick /\ [][NextTick]_vars

\* the process keeps running and every request is answered
SpecTickLive == SpecTick /\ WF_vars(NextTick)

-----------------------------------------------------------------------------
(* Properties of the token lifecycle *)

Returned(c) == pc[c] \in {"ok", "err"}
InFlight(c) == pc[c] \in {"refresh_token", "password"}
Granters == {c \in Callers : reqs[c] # <<>>}
GrantTypes(c) == [i \in 1..Len(reqs[c]) |-> reqs[c][i].grant_type]

\* the condition of the check, on the values a check read
ReadValid(o) ==
    /\ o.cfg.access_token # {}
    /\ o.cfg.token_expires_at # {}
    /\ \A e \in o.cfg.token_expires_at : e > o.now + 60
LastObs(c) == obs[c][Len(obs[c])]

\* every caller found no valid token under the shared guard and went for the
\* exclusive one, and every call has returned
RaceOver ==
    \A c \in Callers : Returned(c) /\ Len(obs[c]) = 2 /\ ~ReadValid(obs[c][1])

\* every token a grant stored is still more than 60 s from expiry
GrantedStillValid ==
    \A c \in Callers : \A i \in 1..Len(reqs[c]) :
        \A e \in reqs[c][i].expires_at : e > now + 60

C3_LockDiscipline ==
    /\ \A k \in Clients :
          /\ Cardinality({c \in Callers : on[c] = k /\ InFlight(c)}) <= 1
          /\ Cardinality(writer[k]) <= 1
          /\ writer[k] # {} => readers[k] = {}
    /\ \A c \in Callers : InFlight(c) =>
          /\ writer[on[c]] = {c}
          /\ \A d \in Callers \ {c} :
                on[d] = on[c] => pc[d] \in {"start", "wait_write", "ok", "err"}
    /\ \A c \in Callers :
          (obs[c] # <<>> /\ ReadValid(obs[c][1])) => (held[c] = {"read"} /\ pc[c] = "ok")

\* two calls are inside the read section at once, and one returns from it
C3_Witness ==
    /\ \E k \in Clients : Cardinality(readers[k]) >= 2
    /\ \E c \in Callers : pc[c] = "read" /\ TokenValid(config[on[c]], now)

\* a grant is in flight while another call waits for a guard
C3_WitnessInFlight ==
    \E c, d \in Callers : InFlight(c) /\ d # c /\ pc[d] \in {"start", "wait_write"}

\* C4: the first grant of a call is a refresh_token grant exactly when a
\* refresh token is stored; a password grant is sent exactly when none is
\* stored or the refresh grant failed; a failed password grant ends the call
\* with an error; a call sends at most two requests, never a password grant
\* before a refresh grant.
C4_GrantOrder ==
    \A c \in Callers :
        /\ GrantTypes(c) \in {<<>>, <<"refresh_token">>, <<"password">>,
                              <<"refresh_token", "password">>}
        /\ reqs[c] # <<>> =>
              /\ LastObs(c).under = "write"
              /\ (reqs[c][1].grant_type = "refresh_token")
                     <=> (LastObs(c).cfg.refresh_token # {})
              /\ (\E i \in 1..Len(reqs[c]) : reqs[c][i].grant_type = "password")
                     <=> \/ LastObs(c).cfg.refresh_token = {}
                         \/ (reqs[c][1].grant_type = "refresh_token" /\ reqs[c][1].ok = "fail")
              /\ \A i \in 1..Len(reqs[c]) :
                    /\ reqs[c][i].ok = "pending" => (i = Len(reqs[c]) /\ InFlight(c))
                    /\ reqs[c][i].ok = "ok" => (i = Len(reqs[c]) /\ pc[c] = "ok")
                    /\ (reqs[c][i].grant_type = "password" /\ reqs[c][i].ok = "fail")
                           => (i = Len(reqs[c]) /\ pc[c] = "err")
        /\ pc[c] = "err" =>
              (reqs[c] # <<>> /\ reqs[c][Len(reqs[c])] = [Request("password") EXCEPT !.ok = "fail"])

\* a refresh grant failed, the password grant after it failed too
C4_Witness ==
    \E c \in Callers :
        /\ pc[c] = "err"
        /\ Len(reqs[c]) = 2
        /\ reqs[c][1].grant_type = "refresh_token"
        /\ reqs[c][1].ok = "fail"

\* C5 as stated: whenever access_token is present, expires_at is present.
CredentialsInv(cfg) == cfg.access_token # {} => cfg.token_expires_at # {}
C5_Original == \A k \in Clients : CredentialsInv(config[k])

\* C5 amended: no step breaks the invariant; a successful grant writes
\* access_token, refresh_token and expires_at = now + expires_in from its
\* response; nothing else writes a credentials field.
GrantWrote(k) ==
    /\ issued' = issued + 1
    /\ \E g \in lastGrant' :
          /\ g.on = k
          /\ g.now = now
          /\ pc[g.by] \in {"refresh_token", "password"}
          /\ config'[k].access_token = {g.response.access_token}
          /\ config'[k].refresh_token = {g.response.refresh_token}
          /\ config'[k].token_expires_at = {now + g.response.expires_in}
C5_Step ==
    /\ \A k \in Clients :
          /\ CredentialsInv(config[k]) => CredentialsInv(config'[k])
          /\ config'[k] # config[k] => GrantWrote(k)
    /\ issued' # issued => \E k \in Clients : GrantWrote(k)
C5_GrantsWriteTogether == [][C5_Step]_vars

\* a seed with a token and no expiry has been replaced by a grant
C5_Witness ==
    \E g \in lastGrant :
        /\ config[g.on].token_expires_at = {g.now + g.response.expires_in}
        /\ config[g.on].access_token = {g.response.access_token}
        /\ now > g.now

-----------------------------------------------------------------------------
(* Properties of the rule selection and of the dispatch *)

\* the inactivity of the conversation in hand, in seconds
Inactivity == now - Unwrap(latest_conversation).updated_at
Selected == dpc \in {"act", "done"} /\ latest_conversation # None /\ reminders # <<>>
\* the rules whose threshold, in hours, is at most the inactivity
Met == {i \in 1..Len(reminders) : reminders[i].inactive_for_hours * Hour <= Inactivity}

\* C6 as stated: the selected rule is a rule of the list with the greatest
\* inactive_for_hours among those with inactive_for_hours <= d, and no rule
\* is selected exactly when the list has no such rule.
C6_Original ==
    Selected =>
        /\ \A r \in rule_to_apply :
              /\ \E i \in Met : reminders[i] = r
              /\ \A i \in Met : reminders[i].inactive_for_hours <= r.inactive_for_hours
        /\ rule_to_apply = None <=> Met = {}

\* the same on rule lists whose thresholds fit both i64 and Duration
InRange == \A i \in 1..Len(reminders) : reminders[i].inactive_for_hours <= MaxDurationHours
C6_InRange == InRange => C6_Original

\* rules at 24 h and 72 h, 80 h of inactivity: the 72 h rule
C6_Witness ==
    /\ Selected
    /\ reminders = <<Rule("A", 24, None), Rule("B", 72, None)>>
    /\ Inactivity = 80 * Hour
    /\ rule_to_apply = Some(Rule("B", 72, None))

\* C7 as stated: with last_updated_at in the future no rule is selected and
\* the selection raises no error, whatever the rule list.
C7_Original ==
    (dpc # "select" /\ latest_conversation # None /\ reminders # <<>> /\ Inactivity < 0) =>
        (rule_to_apply = None /\ dpc = "done" /\ result = Some("Ok"))

C7_InRange == InRange => C7_Original

C7_Witness ==
    /\ dpc = "done"
    /\ Inactivity < 0
    /\ \E i \in 1..Len(reminders) : reminders[i].inactive_for_hours = 0
    /\ rule_to_apply = None

\* what reached the network for the rule's action
ActionCalls ==
    {i \in 1..Len(calls) : calls[i].op \in {"send_message", "email", "http_request"}}

\* C8: with an empty rule list (an empty or an absent reminders.json) the
\* dispatch returns success without selecting a rule, without building a
\* client, and without any request to the network.
C8_EmptyRules ==
    (dpc # "load" /\ reminders_json.kind # "unreadable" /\ reminders_json.rules = <<>>) =>
        /\ dpc = "done"
        /\ result = Some("Ok")
        /\ rule_to_apply = None
        /\ calls = <<>>
        /\ api = None
        /\ pc[Main] = "idle"
        /\ config["send"] = BlankConfig

C8_Witness ==
    /\ dpc = "done"
    /\ reminders_json = [kind |-> "file", rules |-> <<>>]
    /\ conversation = None
    /\ result = Some("Ok")

\* C9 as stated: once a rule without action is selected, the dispatch
\* performs no external action and returns success, whatever the contact.
C9_Original ==
    (dpc = "done" /\ rule_to_apply # None /\ Unwrap(rule_to_apply).action = None) =>
        (result = Some("Ok") /\ ActionCalls = {})

\* the same for a resolved contact that carries its contact details
C9_WithDetails ==
    (dpc = "done" /\ rule_to_apply # None /\ Unwrap(rule_to_apply).action = None
        /\ Unwrap(contact).contact # None) =>
        (result = Some("Ok") /\ ActionCalls = {})

C9_Witness ==
    /\ dpc = "done"
    /\ reminders = <<Rule("A", 24, Some("email")), Rule("B", 72, None)>>
    /\ Inactivity = 80 * Hour
    /\ rule_to_apply = Some(Rule("B", 72, None))
    /\ result = Some("Ok")

\* C10: the acting contact is the recipient-side contact if present and not
\* the sentinel, else the sender-side contact under the same condition, else
\* the contact the lookup by contact_id returned; the lookup is requested
\* only when both embedded references are absent or the sentinel.
Usable(ref) == ref # None /\ \A m \in ref : m.id # NIL_UUID
LookupCalls == {i \in 1..Len(calls) : calls[i].op = "get_messaging_product_contact_by_id"}
LookupWanted == \E a \in api : a.op = "get_messaging_product_contact_by_id"
C10_ResolutionOrder ==
    /\ (LookupCalls # {} \/ LookupWanted) =>
          /\ latest_conversation # None
          /\ \A conv \in latest_conversation :
                ~Usable(conv.to_contact) /\ ~Usable(conv.from_contact)
    /\ contact # None =>
          \A conv \in latest_conversation :
              IF Usable(conv.to_contact) THEN contact = conv.to_contact
              ELSE IF Usable(conv.from_contact) THEN contact = conv.from_contact
              ELSE /\ Cardinality(LookupCalls) = 1
                   /\ \A i \in LookupCalls : calls[i].request = contact_id
                   /\ \A m \in contact : m.id = contact_id
    /\ (latest_conversation # None /\ dpc \in {"select", "act"}) => contact # None

\* a sentinel recipient and a valid sender: the sender is the acting contact
C10_Witness ==
    /\ contact # None
    /\ \E conv \in latest_conversation :
          /\ conv.to_contact = Some(SentinelMpc)
          /\ Usable(conv.from_contact)
          /\ contact = conv.from_contact
    /\ LookupCalls = {}

\* both references unusable: the contact comes from the lookup
C10_WitnessLookup ==
    /\ contact # None
    /\ LookupCalls # {}
    /\ \E conv \in latest_conversation : conv.to_contact = Some(SentinelMpc)

-----------------------------------------------------------------------------
(* Properties of the actions and of mock *)

ActionIs(kind) == rule_to_apply # None /\ Unwrap(rule_to_apply).action = Some(kind)
SendCalls == {i \in 1..Len(calls) : calls[i].op = "send_message"}
EmailCalls == {i \in 1..Len(calls) : calls[i].op = "email"}
TokenCalls == {i \in 1..Len(calls) : calls[i].op = "token"}

\* C11 as stated: a dispatch whose rule has a wacraft_message action and whose
\* resolved contact has no product details ends with the
\* missing-product-details error, and send_message is never requested.
C11_Original ==
    (dpc = "done" /\ ActionIs("wacraft_message") /\ Unwrap(contact).product_details = None) =>
        (result = Some("Contact missing product details") /\ SendCalls = {})

\* the same for a contact that carries its contact details
C11_WithDetails ==
    (dpc = "done" /\ ActionIs("wacraft_message") /\ Unwrap(contact).product_details = None
        /\ Unwrap(contact).contact # None) =>
        (result = Some("Contact missing product details") /\ SendCalls = {})

\* C12 as stated: a dispatch whose rule has an email action and whose resolved
\* contact has contact details without an email address ends with the
\* no-email-address error, and no email is sent.
NoEmailAddress == \E m \in contact : \E ctt \in m.contact : ctt.email = None
C12_Original ==
    (dpc = "done" /\ ActionIs("email") /\ NoEmailAddress) =>
        (result = Some("Contact has no email address.") /\ EmailCalls = {})

\* the same for mock = false
C12_NotMock == ~mock => C12_Original

\* the error send_reminder_to_contact returns with mock = false between the
\* selection of a rule and the transport call (lines 121-126, 131-134 and
\* core/email lines 15-18), None if there is none
PreTransportError(m, action) ==
    IF m.contact = None THEN Some("Messaging product is missing contact details")
    ELSE IF action = Some("wacraft_message") /\ m.product_details = None
         THEN Some("Contact missing product details")
    ELSE IF action = Some("email") /\ Unwrap(m.contact).email = None
         THEN Some("Contact has no email address.")
    ELSE None

\* with mock = false the dispatch does return that error
NotMockReturnsIt ==
    (~mock /\ dpc = "done" /\ rule_to_apply # None
        /\ PreTransportError(Unwrap(contact), Unwrap(rule_to_apply).action) # None) =>
        result = PreTransportError(Unwrap(contact), Unwrap(rule_to_apply).action)

\* C13 as stated: with mock = true the dispatch returns every error the
\* mock = false dispatch returns before its transport call, and issues no
\* message-send, email or webhook call.
C13_Original ==
    (mock /\ dpc = "done" /\ rule_to_apply # None) =>
        /\ ActionCalls = {}
        /\ PreTransportError(Unwrap(contact), Unwrap(rule_to_apply).action) # None =>
              result = PreTransportError(Unwrap(contact), Unwrap(rule_to_apply).action)

\* the same without the email-address check
C13_ExceptEmail ==
    (mock /\ dpc = "done" /\ rule_to_apply # None) =>
        /\ ActionCalls = {}
        /\ PreTransportError(Unwrap(contact), None) # None =>
              result = PreTransportError(Unwrap(contact), None)
        /\ PreTransportError(Unwrap(contact), Some("wacraft_message")) # None /\ ActionIs("wacraft_message") =>
              result = PreTransportError(Unwrap(contact), Some("wacraft_message"))

\* C14 as stated: a dispatch with mock = true sends no grant request and no
\* action request, and the credentials of the client it built stay those the
\* client was built with.
C14_Original ==
    mock =>
        /\ TokenCalls = {}
        /\ ActionCalls = {}
        /\ reminders # <<>> => config["send"] = settings

\* the same for action requests alone
C14_NoActionCall == mock => ActionCalls = {}

\* C15: a dispatch sends at most one action request, the request is the one of
\* the selected rule's action, and no step of the dispatch changes
\* reminders.json or the settings it was given.
OneActionCall ==
    /\ Cardinality(ActionCalls) <= 1
    /\ \A i \in ActionCalls :
          /\ rule_to_apply # None
          /\ calls[i].op = IF ActionIs("wacraft_message") THEN "send_message"
                           ELSE Unwrap(Unwrap(rule_to_apply).action)
          /\ ~mock
C15_OneAction ==
    /\ []OneActionCall
    /\ [][reminders_json' = reminders_json /\ settings' = settings]_vars

C15_Witness ==
    /\ dpc = "done"
    /\ result = Some("Ok")
    /\ Cardinality(ActionCalls) = 1
    /\ \E i \in ActionCalls : calls[i].op = "http_request"
    /\ Len(reminders) = 2

-----------------------------------------------------------------------------
(* Properties of the daemon *)

FailedFetches == {k \in 1..Len(fetches) : fetches[k].outcome = "failed"}
FetchFailed == FailedFetches # {}
InBody == dstate \in {"cycle", "fetch", "fetch_token", "fetch_wait", "page", "dispatch"}

\* C16 as stated: the k-th fetch of a cycle (k = 0, 1, ..) asks for
\* limit = batch_size and offset = k * batch_size, and only the last fetch of
\* a cycle can have returned something else than a page that is not empty.
C16_Original ==
    /\ \A k \in 1..Len(fetches) :
          /\ fetches[k].limit = batch_size
          /\ fetches[k].offset = (k - 1) * batch_size
    /\ \A k \in 1..(Len(fetches) - 1) : fetches[k].outcome = "page"

\* the same while k * batch_size fits the offset's width
C16_InRange == (Len(fetches) - 1) * batch_size < 2 ^ OffsetBits => C16_Original

\* C17 as stated: a dispatch that returned an error is followed by the rest of
\* the page, and once a dispatch of the cycle has returned an error the daemon
\* still runs the cycle to its end.
ErrorReturned == dstate = "dispatch" /\ dpc = "done" /\ result # Some("Ok")
Isolated ==
    (ErrorReturned /\ dstate' # "dispatch") =>
        (dstate' = "page" /\ page' = page /\ offset' = offset /\ running' = running
            /\ cycle_result' = None /\ had_error')
C17_Original ==
    /\ [][Isolated]_vars
    /\ [](had_error => dstate # "panic")

\* the step alone: the error ends neither the page nor the cycle
C17_Step == [][Isolated]_vars

\* C18: a failed page fetch is the last fetch of its cycle; the cycle is over
\* with the fetch's error, nothing of it is in progress and the loop is back
\* at the timer; and the next cycle does begin.
C18_Aborted ==
    FetchFailed =>
        /\ FailedFetches = {Len(fetches)}
        /\ cycle_result = Some("Daemon: Failed to fetch conversations batch")
        /\ dstate = "await_tick"
        /\ dpc = "idle"
        /\ pc[Main] = "idle"
        /\ running = 0
C18_FetchFailure ==
    /\ []C18_Aborted
    /\ FetchFailed ~> (dstate = "cycle")

\* the second page's fetch fails, after a page whose dispatch returned an error
C18_Witness ==
    /\ FetchFailed
    /\ Len(fetches) = 2
    /\ fetches[1].outcome = "page"
    /\ had_error
    /\ dstate = "await_tick"

\* C19: at most one cycle body is in progress; a dispatch or a token call is
\* in progress only inside it; the loop awaits the timer only outside it.
C19_NoOverlap ==
    /\ running \in {0, 1}
    /\ running = 1 <=> (InBody \/ dstate = "panic")
    /\ dpc # "idle" => dstate \in {"dispatch", "panic"}
    /\ pc[Main] # "idle" => InBody

\* a deadline passed while a dispatch of the cycle was in progress
C19_Witness ==
    /\ dstate = "dispatch"
    /\ due = MaxDue
    /\ Len(fetches) = 2
    /\ running = 1

\* C20 as stated: cycles begin again and again, and the daemon never ends.
C20_Original ==
    /\ []<>(dstate = "cycle")
    /\ [](dstate # "panic")

\* cycles begin again and again unless the process has panicked
C20_UnlessPanic == []<>(dstate \in {"cycle", "panic"})

-----------------------------------------------------------------------------
(* Further properties of the token lifecycle *)

\* the call of c returns a token in this step
ReturnsToken(c) == pc[c] # "ok" /\ pc'[c] = "ok"
\* the call of c returns an error in this step
ReturnsError(c) == pc[c] # "err" /\ pc'[c] = "err"

\* C27 as stated: at the step in which a call returns a token, the client
\* stores that token with an expiry more than 60 s after the clock.
FreshAtReturn ==
    \A c \in Callers :
        ReturnsToken(c) =>
            /\ ret'[c] = config'[on[c]].access_token
            /\ TokenValid(config'[on[c]], now')
C27_Original == [][FreshAtReturn]_vars

\* the same for the calls that return without a grant of their own
FreshWithoutGrant ==
    \A c \in Callers :
        (ReturnsToken(c) /\ reqs'[c] = <<>>) =>
            /\ ret'[c] = config'[on[c]].access_token
            /\ TokenValid(config'[on[c]], now')
C27_WithoutGrant == [][FreshWithoutGrant]_vars

\* C28: the step in which a call fails changes no credentials and releases
\* the exclusive guard; the credentials are then those its re-check read; the
\* failed call holds no guard, sent its last request as a password grant, and
\* stops no other call.
FailureStep ==
    \A c \in Callers :
        ReturnsError(c) =>
            /\ config' = config
            /\ config[on[c]] = LastObs(c).cfg
            /\ writer[on[c]] = {c}
            /\ writer'[on[c]] = {}
            /\ \A d \in Callers \ {c} : pc'[d] = pc[d] /\ ret'[d] = ret[d]
AfterFailure ==
    \A c \in Callers :
        pc[c] = "err" =>
            /\ c \notin writer[on[c]]
            /\ c \notin readers[on[c]]
            /\ ret[c] = None
            /\ reqs[c] # <<>>
            /\ reqs[c][Len(reqs[c])] = [grant_type |-> "password", ok |-> "fail", expires_at |-> None]
C28_FailureLeavesCredentials ==
    /\ [][FailureStep]_vars
    /\ []AfterFailure

\* a call has failed and a later call on the same client is at its own grant
C28_Witness ==
    \E c, d \in Callers :
        /\ pc[c] = "err"
        /\ on[c] = on[d]
        /\ pc[d] = "password"
        /\ config[on[c]].access_token = Some(0)

-----------------------------------------------------------------------------
(* Further properties of the rule selection *)

\* the rules that share the greatest threshold that is at most the inactivity
Tied == {i \in Met : \A j \in Met : reminders[j].inactive_for_hours <= reminders[i].inactive_for_hours}
First(S) == CHOOSE i \in S : \A j \in S : i <= j

\* C30 as stated: when several rules share the greatest threshold that is at
\* most the inactivity, the first of them in the list is the selected rule.
C30_Original ==
    (Selected /\ Cardinality(Tied) >= 2) => rule_to_apply = Some(reminders[First(Tied)])

\* the same on rule lists whose thresholds fit both i64 and Duration
C30_InRange == InRange => C30_Original

-----------------------------------------------------------------------------
(* Properties of the API client's operations *)

ApiOps ==
    {"send_message", "get_conversations", "get_conversation_messages",
     "get_messaging_product_contact_by_id"}
OpCalls(op) == {i \in 1..Len(calls) : calls[i].op = op}
OpInProgress == IF dstate = "fetch_token" \/ dstate = "fetch_wait" THEN Some("get_conversations")
                ELSE {a.op : a \in api}

\* every request of an operation carries a token, the one get_valid_token
\* returned; while the token is being obtained no request of the operation
\* has been sent, afterwards exactly one
OneRequest ==
    /\ \A i \in 1..Len(calls) : calls[i].op \in ApiOps => calls[i].token # None
    /\ \A op \in ApiOps : Cardinality(OpCalls(op)) <= 1
    /\ \A op \in OpInProgress :
          IF dpc = "api_token" \/ dstate = "fetch_token"
          THEN OpCalls(op) = {}
          ELSE /\ OpCalls(op) = {Len(calls)}
               /\ calls[Len(calls)].token = ret[Main]
\* a failed token call ends the operation with the error and without a request
TokenFailureStep ==
    (dpc = "api_token" /\ pc[Main] = "err" /\ dpc' # "api_token") =>
        /\ calls' = calls
        /\ dpc' = "done"
        /\ result' = Some("Failed to get token with password credentials")
\* the answer ends the operation: no second request, and no token call for one
AnswerStep ==
    (dpc = "api_wait" /\ dpc' # "api_wait") =>
        /\ calls' = calls
        /\ api' = None
        /\ pc'[Main] = "idle"
        /\ dpc' \in {"done", "resolve", "select"}
        /\ dpc' = "done" => result' # None

\* C24: an operation sends no request when its token call failed and returns
\* that error; otherwise it sends exactly one request, with the token; its
\* answer, an error included, is never followed by another request of it.
C24_OneRequest ==
    /\ []OneRequest
    /\ [][TokenFailureStep /\ AnswerStep]_vars

\* send_message was answered with an error status: one request, an error
C24_Witness ==
    /\ dpc = "done"
    /\ result = Some("Failed to send WhatsApp message")
    /\ Cardinality(OpCalls("send_message")) = 1
    /\ Cardinality(OpCalls("get_conversation_messages")) = 1

-----------------------------------------------------------------------------
(* Properties of the two triggers *)

\* the results a finished dispatch may return for a resolved contact m and the
\* outcome `found` of the selection: one result where the code decides alone,
\* the answers of the token endpoint, the API, the template file and the
\* transport where it asks them
Results(m, found, dry) ==
    IF found.kind = "none" THEN {"Ok"}
    ELSE LET action == Unwrap(found.rule).action
         IN  IF m.contact = None THEN {"Messaging product is missing contact details"}
             ELSE IF action = None THEN {"Ok"}
             ELSE IF action = Some("wacraft_message") /\ m.product_details = None
                  THEN {"Contact missing product details"}
             ELSE IF dry THEN {"Ok"}
             ELSE IF action = Some("wacraft_message")
                  THEN {"Ok", "Failed to send WhatsApp message",
                        "Failed to get token with password credentials"}
             ELSE IF action = Some("email") /\ Unwrap(m.contact).email = None
                  THEN {"Contact has no email address."}
             ELSE IF action = Some("email")
                  THEN {"Ok", "Failed to read email template", "Failed to send"}
             ELSE {"Ok", "Failed to send"}

\* the contact, the rule, the action's request and the result, written on
\* contact_id, the latest conversation, the rule list, the clock and mock
\* alone: where the latest conversation came from does not occur
SameOutcome ==
    \A conv \in latest_conversation :
       LET found == SelectRule(reminders, conv.updated_at, now)
       IN  /\ contact # None =>
                 IF ContactRef(conv) # None
                 THEN contact = ContactRef(conv) /\ LookupCalls = {}
                 ELSE /\ contact \in {Some(m) : m \in MpcVariants(contact_id)}
                      /\ \A i \in LookupCalls : calls[i].request = contact_id
           /\ dpc \in {"act", "email", "http_request", "transport_wait"} =>
                 found.kind = "some" /\ rule_to_apply = found.rule
           /\ rule_to_apply # None => rule_to_apply = found.rule
           /\ \A i \in ActionCalls :
                 /\ found.kind = "some"
                 /\ ~mock
                 /\ calls[i].op = IF Unwrap(found.rule).action = Some("wacraft_message")
                                  THEN "send_message" ELSE Unwrap(Unwrap(found.rule).action)
                 /\ calls[i].op = "send_message" => calls[i].request = MessageToSend
           /\ (dpc = "done" /\ contact # None) =>
                 /\ result # None
                 /\ Unwrap(result) \in Results(Unwrap(contact), found, mock)

\* C22: once the latest conversation is there, fetched by the dispatcher or
\* supplied from the page, the contact, the rule, the action and the result
\* are the same function of contact id, conversation, rule list, clock and
\* mock; the trigger's argument is not changed by the dispatch.
C22_TriggerEquivalence ==
    /\ []SameOutcome
    /\ [][conversation' = conversation /\ contact_id' = contact_id]_vars

\* the manual trigger fetched a conversation the daemon hands over for the
\* same contact id, and performed the action
C22_Witness ==
    /\ conversation = None
    /\ dpc = "done"
    /\ \E conv \in latest_conversation :
          /\ conv.to_contact # None
          /\ Unwrap(conv.to_contact).id = contact_id
          /\ ContactRef(conv) = conv.to_contact
    /\ ActionCalls # {}
    /\ result = Some("Ok")

\* the daemon's trigger for a page conversation whose recipient is the nil
\* sentinel resolved the sender, as the manual trigger does
C22_WitnessPage ==
    /\ conversation # None
    /\ dpc = "done"
    /\ \E conv \in conversation :
          /\ conv.to_contact = Some(SentinelMpc)
          /\ contact = conv.from_contact
    /\ rule_to_apply # None

-----------------------------------------------------------------------------
(* Properties of the manual invocation *)

ManualDone == conversation = None /\ dpc = "done"
TokenFailed ==
    /\ reqs[Main] # <<>>
    /\ reqs[Main][Len(reqs[Main])].grant_type = "password"
    /\ reqs[Main][Len(reqs[Main])].ok = "fail"
\* the named conditions of the data errors
DataErrors ==
    {"No conversation found", "No messaging product contact found",
     "Messaging product is missing contact details", "Contact missing product details",
     "Contact has no email address."}

\* C23 as stated: the manual invocation returns the error of the step that
\* failed (rules unreadable, token refused, no conversation, no contact, a
\* required attribute of the contact missing, transport refused), never
\* success after a failure, and each data error has a name of its own.
C23_Original ==
    ManualDone =>
        /\ result # None
        /\ reminders_json.kind = "unreadable" => result = Some("Failed to load reminders.json.")
        /\ TokenFailed => result = Some("Failed to get token with password credentials")
        /\ (reminders # <<>> /\ latest_conversation = None) =>
              Unwrap(result) \in {"Failed to get token with password credentials",
                                  "Failed to fetch conversations", "No conversation found"}
        /\ (latest_conversation # None /\ contact = None) =>
              Unwrap(result) \in {"Failed to get token with password credentials",
                                  "Failed to fetch messaging product contact",
                                  "No messaging product contact found"}
        /\ (contact # None /\ rule_to_apply # None
               /\ PreTransportError(Unwrap(contact), Unwrap(rule_to_apply).action) # None) =>
              result = PreTransportError(Unwrap(contact), Unwrap(rule_to_apply).action)
        /\ result = Some("Ok") =>
              \/ reminders = <<>>
              \/ /\ contact # None
                 /\ ~TokenFailed
                 /\ rule_to_apply # None => Cardinality(ActionCalls) = 
                       IF mock \/ Unwrap(rule_to_apply).action = None THEN 0 ELSE 1
        /\ Cardinality(DataErrors) = 5

\* the same for an invocation without --mock
C23_NotMock == ~mock => C23_Original

-----------------------------------------------------------------------------
(* Properties of the webhook's placeholders *)

HttpCalls == {i \in 1..Len(calls) : calls[i].op = "http_request"}
Placeholders == {Text("{contact_id}"), Text("{contact_name}"), Text("{contact_email}")}
\* the action's templates with `id`, `name` and `email` at the placeholders
Filled(id, name, email) ==
    [url    |-> <<Text("https://x/"), id>>,
     header |-> <<name, Text(";"), email>>,
     body   |-> <<id, email, name, id>>]
EmailText(ctt) == IF ctt.email = None THEN <<>> ELSE Unwrap(ctt.email)

\* C25 as stated: the request of a webhook action carries, at every
\* placeholder of the url, of the header value and of the body, the id the
\* dispatch was invoked for and the name and email (or the empty text) of
\* its contact: https://x/{contact_id} for contact_id c1 is https://x/c1.
C25_Original ==
    \A i \in HttpCalls :
        \E ctt \in Unwrap(contact).contact :
            calls[i].request = Filled(Text(contact_id), ctt.name, EmailText(ctt))

\* the same with the id of the resolved contact's Contact record at
\* {contact_id}; no placeholder is left in the request
C25_ContactRecordId ==
    \A i \in HttpCalls :
        /\ \E ctt \in Unwrap(contact).contact :
              calls[i].request = Filled(ctt.id, ctt.name, EmailText(ctt))
        /\ \A part \in {calls[i].request.url, calls[i].request.header, calls[i].request.body} :
              \A k \in DOMAIN part : part[k] \notin Placeholders

-----------------------------------------------------------------------------
(* Properties of the credentials in the daemon *)

\* the cycle's client holds a token a grant wrote, more than 60 s from expiry
HoldsGranted(cfg, seed) ==
    /\ TokenValid(cfg, now)
    /\ cfg.access_token # seed.access_token
\* a grant request goes out
GrantSent == Len(reqs'[Main]) > Len(reqs[Main])

\* C21 as stated: the token a grant wrote during one tick is still held by the
\* credentials of the client the next tick starts with, while it is more
\* than 60 s from expiry.
C21_Original ==
    [][(dstate = "cycle" /\ dstate' = "fetch"
          /\ \E seed \in settings_json : HoldsGranted(config["cycle"], seed)) =>
            config'["cycle"] = config["cycle"]]_vars

\* inside a tick the credentials of the cycle's client change by a grant only
C21_WithinTick ==
    [][(config'["cycle"] # config["cycle"] /\ dstate # "cycle") => GrantWrote("cycle")]_vars

\* C29 as stated: once a grant of the tick has succeeded, no operation of the
\* tick (page fetch, contact lookup, message send) sends a grant request while
\* that token is more than 60 s from expiry.
C29_Original ==
    [][(GrantSent /\ dstate \notin {"off", "await_tick", "cycle"}) =>
            ~HoldsGranted(config["cycle"], settings)]_vars

\* a grant request goes out on a client whose own token is not valid
C29_PerClient ==
    [][GrantSent => ~TokenValid(config[on[Main]], now)]_vars

-----------------------------------------------------------------------------
(* Properties of the rules during a tick *)

\* C26 as stated: the dispatches of one tick all use the same rule list, also
\* when reminders.json is rewritten while the tick runs.
C26_Original == Cardinality(loaded) <= 1

\* each dispatch uses the list the file holds when the dispatch loads it
C26_LoadedAtDispatch ==
    [][(dpc = "load" /\ dpc' \notin {"load", "done"}) =>
            reminders' = Unwrap(LoadReminders(reminders_json))]_vars

-----------------------------------------------------------------------------
(* Properties of the threshold's conversion *)

Decided == dpc # "select" /\ latest_conversation # None /\ reminders # <<>>

\* C37 as stated: whatever the unsigned thresholds of the rules, the selection
\* does not abort, and a rule is selected only if its threshold in hours is
\* at most the inactivity.
C37_Original ==
    Decided =>
        /\ dpc # "panic"
        /\ \A r \in rule_to_apply : r.inactive_for_hours * Hour <= Inactivity

\* the same on rule lists whose thresholds fit both i64 and Duration
C37_InRange == InRange => C37_Original

-----------------------------------------------------------------------------
(* Properties of the message's recipient *)

\* C34 as stated: the to_id and the to (wa_id) of a message that is sent are
\* those of the resolved contact, whichever reference or lookup resolved it.
C34_Original ==
    \A i \in SendCalls :
        \E m \in contact :
            /\ calls[i].request.to_id = m.id
            /\ \E details \in m.product_details : calls[i].request.to = details.wa_id

\* the same where the resolved contact is not the conversation's sender: to_id
\* is the contact_id argument, which is the id of the recipient reference and
\* of the looked-up contact
SenderResolved ==
    \E conv \in latest_conversation : ~Usable(conv.to_contact) /\ Usable(conv.from_contact)
C34_UnlessSender == ~SenderResolved => C34_Original

-----------------------------------------------------------------------------
(* Properties of the visit of a page *)

\* the page changes by a new page once the previous one is used up, or by its
\* first conversation being taken: dispatched with its recipient's id if it
\* has a recipient, passed over if it has none
TakesNext ==
    page' # page =>
        \/ /\ dstate = "fetch_wait"
           /\ dstate' = "page"
           /\ page = <<>>
        \/ /\ dstate = "page"
           /\ page # <<>>
           /\ page' = Tail(page)
           /\ offset' = offset
           /\ IF Head(page).to_contact = None
              THEN dstate' = "page" /\ dpc' = "idle"
              ELSE /\ dstate' = "dispatch"
                   /\ dpc' = "load"
                   /\ conversation' = Some(Head(page))
                   /\ contact_id' = Unwrap(Head(page).to_contact).id
\* a dispatch starts for the first conversation of the page only, and only
\* when no dispatch is in progress
StartsDispatch ==
    (dpc = "idle" /\ dpc' # "idle") =>
        /\ dstate = "page"
        /\ page # <<>>
        /\ Head(page).to_contact # None
        /\ page' = Tail(page)
\* the next fetch and the end of the cycle come after the whole page
PageUsedUp ==
    dstate \in {"await_tick", "cycle", "fetch", "fetch_token", "fetch_wait"} => page = <<>>

\* C31 as stated: every conversation of a fetched page is taken once, in the
\* page's order, dispatched if and only if it has a recipient, the next one
\* after the previous dispatch has returned, the next page after the whole
\* page; and every conversation of the page is taken.
C31_Original ==
    /\ [][TakesNext /\ StartsDispatch]_vars
    /\ []PageUsedUp
    /\ (page # <<>>) ~> (page = <<>>)

\* the order alone
C31_InOrder ==
    /\ [][TakesNext /\ StartsDispatch]_vars
    /\ []PageUsedUp
\* every conversation of the page is taken unless the process has panicked
C31_UnlessPanic == (page # <<>>) ~> (page = <<>> \/ dstate = "panic")

-----------------------------------------------------------------------------
(* Properties of the credentials as they are observed *)

\* the credentials of client k are those of one grant response, the latest on
\* k, or, before any grant, those the client was constructed with
Whole(k) ==
    IF \E g \in lastGrant : g.on = k
    THEN \A g \in lastGrant :
            /\ config[k].access_token = Some(g.response.access_token)
            /\ config[k].refresh_token = Some(g.response.refresh_token)
            /\ config[k].token_expires_at = Some(g.now + g.response.expires_in)
    ELSE config[k] \in SeedConfigs
\* the call of c reads the credentials in this step
Observes(c) == Len(obs'[c]) > Len(obs[c])
\* a read happens under a guard and while no other task holds the exclusive
\* one, and reads the three fields as they are; a write happens under the
\* exclusive guard with no reader inside, and is a grant's; a returned token
\* is the access_token of the credentials
ObservedWhole ==
    /\ \A c \in Callers :
          Observes(c) =>
              /\ obs'[c][Len(obs'[c])].cfg = config[on[c]]
              /\ writer[on[c]] \subseteq {c}
              /\ c \in readers[on[c]] \/ writer[on[c]] = {c}
    /\ \A k \in Clients :
          config'[k] # config[k] =>
              /\ \E c \in Callers : writer[k] = {c} /\ on[c] = k
              /\ readers[k] = {}
              /\ GrantWrote(k)
    /\ \A c \in Callers : ReturnsToken(c) => ret'[c] = config'[on[c]].access_token

\* C32: access_token, refresh_token and expires_at are always those of one
\* grant response or those of the initial configuration, and every read of
\* them by a get_valid_token call is shut off from the write of a grant.
C32_ObservedWhole ==
    /\ [](\A k \in Clients : Whole(k))
    /\ [][ObservedWhole]_vars

\* a call read, under the shared guard, the credentials another call's grant
\* wrote over a stored token
C32_Witness ==
    \E c, d \in Callers :
        /\ c # d
        /\ \E g \in lastGrant : g.by = d
        /\ obs[d] # <<>> /\ obs[d][1].cfg.access_token = Some(0)
        /\ obs[c] # <<>>
        /\ LastObs(c).under = "read"
        /\ LastObs(c).cfg.access_token = Some(1)
        /\ LastObs(c).cfg.refresh_token = Some(1)

-----------------------------------------------------------------------------
(* Properties of the token protocol's progress *)

\* a call that asks for the exclusive guard holds no shared guard, and the
\* answer of a grant in flight is taken without asking for a guard
NoGuardWanted ==
    \A c \in Callers :
        /\ pc[c] = "wait_write" => c \notin readers[on[c]] /\ c \notin writer[on[c]]
        /\ pc[c] = "refresh_token" => ENABLED RefreshReply(c)
        /\ pc[c] = "password" => ENABLED PasswordReply(c)

\* C33: every get_valid_token call returns, with a token or with an error; a
\* call has dropped the shared guard when it asks for the exclusive one, and
\* the grant made under the exclusive guard asks for no guard.
C33_EveryCallReturns ==
    /\ []NoGuardWanted
    /\ \A c \in Callers : <>Returned(c)

\* all calls have returned, one of them after waiting for the exclusive guard
\* behind the other's grant
C33_Witness ==
    /\ \A c \in Callers : Returned(c)
    /\ \E c, d \in Callers :
          /\ c # d
          /\ reqs[d] # <<>>
          /\ Len(obs[c]) = 2
          /\ obs[c][2].under = "write"
          /\ obs[c][2].cfg # obs[c][1].cfg
-----------------------------------------------------------------------------
(* Properties of a tick over a list that stays as it is *)

\* ceil(n / b)
Ceil(n, b) == (n + b - 1) \div b
\* the tick has come to its end at an empty page
TickDone == dstate = "await_tick" /\ cycle_result = Some("Ok")
\* the pages asked for are those at 0, b, 2b, .., ceil(n / b) * b, each of b
\* conversations: together they hold every conversation of the list once, and
\* the last one is the empty page
FetchesExact ==
    /\ Len(fetches) = Ceil(Len(remote), batch_size) + 1
    /\ \A k \in 1..Len(fetches) :
          /\ fetches[k].offset = (k - 1) * batch_size
          /\ fetches[k].limit = batch_size
          /\ fetches[k].outcome = IF k = Len(fetches) THEN "empty" ELSE "page"

\* C35 as stated: over a list of n conversations that does not change, with
\* every request answered, a tick of batch size b comes to its end, and it has
\* then made exactly ceil(n / b) + 1 page fetches, which visit each of the n
\* conversations once.
C35_Original ==
    /\ [](TickDone => FetchesExact)
    /\ (dstate = "cycle") ~> (dstate = "await_tick")

\* every offset of the tick fits the offset's width, and no rule's threshold
\* is beyond Duration's range
TickInRange ==
    /\ Ceil(Len(remote), batch_size) * batch_size < 2 ^ OffsetBits
    /\ \A i \in 1..Len(reminders_json.rules) :
          reminders_json.rules[i].inactive_for_hours <= MaxDurationHours
\* the same, where the offsets fit and no dispatch panics
C35_InRange ==
    /\ [](TickInRange /\ TickDone => FetchesExact)
    /\ (TickInRange /\ dstate = "cycle") ~> (dstate = "await_tick")
-----------------------------------------------------------------------------
(* Properties of the ticks that follow one another *)

\* a dispatch of the loop has come to its end
DispatchOver == dstate = "dispatch" /\ dpc \in {"done", "panic"} /\ latest_conversation # None
\* the rule a dispatch is to apply: of the rules whose threshold is met, one of
\* the greatest threshold
DueRules ==
    {i \in Met : \A j \in Met : reminders[j].inactive_for_hours <= reminders[i].inactive_for_hours}
\* the webhook of that rule has been requested, once
Redispatched ==
    \A i \in DueRules :
        (reminders[i].action = Some("http_request") /\ ~mock) => Cardinality(HttpCalls) = 1

\* C36 as stated: in every tick, the first and the later ones, the dispatch
\* of a conversation that meets a rule's threshold performs that rule's
\* action, whatever the ticks before have dispatched.
C36_Original == DispatchOver => Redispatched

\* a tick begins with nothing of the ticks before it: the offset is 0, no page
\* and no dispatch is at hand, the client is the one of settings.json
StartsAfresh ==
    (dstate = "fetch" /\ fetches = <<>>) =>
        /\ offset = 0
        /\ page = <<>>
        /\ dpc = "idle"
        /\ conversation = None
        /\ reminders = <<>>
        /\ rule_to_apply = None
        /\ loaded = {}
        /\ config["cycle"] = Unwrap(settings_json)
\* the same for the dispatches that return, and what a tick starts from
C36_UnlessPanic ==
    /\ (DispatchOver /\ dpc = "done") => Redispatched
    /\ StartsAfresh

====
